---- MODULE Spec2Model ----
(***************************************************************************)
(* StoryBot (evgenyq/storybot): the two conversation flows of              *)
(* telegram-bot/api/bot.py, the per-user dictionary user_data, the         *)
(* background reference tasks started while characters are entered, and    *)
(* the join over them in finish_characters.                                *)
(*                                                                         *)
(* One user is modelled.  Updates are processed one at a time (the         *)
(* Application is built without concurrent updates), so a handler that is  *)
(* suspended on a task blocks every later turn; the tasks themselves run   *)
(* in the background and settle at any moment.                             *)
(***************************************************************************)
EXTENDS Integers, Sequences, FiniteSets, TLC

(***************************************************************************)
(* Bounds of the model.                                                    *)
(***************************************************************************)
MaxFlows == 2       \* book-creation flows entered through create_book
MaxChars == 2       \* character names accepted, over all flows
MaxJobs == 2        \* reference tasks created, over all flows
MaxChapters == 1    \* chapters generated, over all books
MaxFaults == 1      \* calls of the environment that fail (store, launch, delivery)

(***************************************************************************)
(* Program constants.                                                      *)
(***************************************************************************)
MIN_TITLE == 3
MAX_TITLE == 100
MIN_DESCRIPTION == 10
MIN_NAME == 2
MIN_CLARIFICATION == 5
SHORT_DESCRIPTION == 15

(***************************************************************************)
(* Text.  A text is a sequence of one-character strings.                   *)
(***************************************************************************)
Spaces(n) == [i \in 1..n |-> " "]
Word(n) == [i \in 1..n |-> "x"]
Padded(l, n, t) == Spaces(l) \o Word(n) \o Spaces(t)

RECURSIVE lstrip(_)
lstrip(s) == IF s # << >> /\ Head(s) = " " THEN lstrip(Tail(s)) ELSE s

RECURSIVE rstrip(_)
rstrip(s) ==
    IF s # << >> /\ s[Len(s)] = " " THEN rstrip(SubSeq(s, 1, Len(s) - 1)) ELSE s

\* only the leading white space is removed
StripLeft(s) == lstrip(s)

\* str.strip()
strip(s) == lstrip(rstrip(s))

\* str.lower() on the letters the inputs use
lower(s) ==
    [i \in 1..Len(s) |-> CASE s[i] = "C" -> "c" [] s[i] = "L" -> "l" [] OTHER -> s[i]]

Max(S) == CHOOSE x \in S : \A y \in S : y <= x

\* Python's `w in s` for strings
Contains(s, w) ==
    \E i \in 1..(Len(s) - Len(w) + 1) : SubSeq(s, i, i + Len(w) - 1) = w

(***************************************************************************)
(* Python dictionaries: functions whose domain is the set of keys present. *)
(***************************************************************************)
EmptyDict == << >>
Has(d, k) == k \in DOMAIN d
Put(d, k, v) == [x \in (DOMAIN d) \cup {k} |-> IF x = k THEN v ELSE d[x]]

(***************************************************************************)
(* utils/character_analyzer.py: the completeness check.  A Russian letter  *)
(* is written as one element of the sequence, in Latin transliteration     *)
(* ("sh", "yu", "'" for the soft sign), so that a text has the length it   *)
(* has in the program.  The question is modelled by the sequence of topics *)
(* it asks about.                                                          *)
(***************************************************************************)
appearance_keywords == <<
    <<"v","n","e","sh","n","o","s","t","'">>,
    <<"v","y","g","l","ya","d","i","t">>,
    <<"c","v","e","t">>,
    <<"r","a","z","m","e","r">>,
    <<"r","o","s","t">>,
    <<"g","l","a","z","a">>,
    <<"v","o","l","o","s","y">>,
    <<"sh","e","r","s","t","'">>,
    <<"b","o","l","'","sh","o","j">>,
    <<"m","a","l","e","n","'","k","i","j">>,
    <<"r","y","zh","i","j">>,
    <<"b","e","l","y","j">>,
    <<"ch","e","r","n","y","j">>
    >>

personality_keywords == <<
    <<"h","a","r","a","k","t","e","r">>,
    <<"l","yu","b","i","t">>,
    <<"d","o","b","r","y","j">>,
    <<"s","m","e","l","y","j">>,
    <<"v","e","s","e","l","y","j">>,
    <<"u","m","n","y","j">>,
    <<"d","r","u","zh","e","l","yu","b","n","y","j">>,
    <<"h","r","a","b","r","y","j">>,
    <<"o","z","o","r","n","o","j">>
    >>

has_appearance(description) ==
    \E k \in 1..Len(appearance_keywords) :
        Contains(lower(description), appearance_keywords[k])

\* every description counts as telling the personality
HasPersonalityAlways(description) == TRUE

has_personality(description) ==
    \E k \in 1..Len(personality_keywords) :
        Contains(lower(description), personality_keywords[k])

analyze_character_description(description) ==
    IF Len(description) < SHORT_DESCRIPTION
    THEN [missing_fields |-> <<"details">>,
          clarification_question |-> <<"appearance", "personality">>]
    ELSE LET missing ==
                 (IF has_appearance(description) THEN << >> ELSE <<"appearance">>)
                 \o (IF has_personality(description) THEN << >> ELSE <<"personality">>)
         IN  [missing_fields |-> missing, clarification_question |-> missing]

\* the reply that carries the question, by the topics the question names
QuestionMessage(clarification_question) ==
    IF clarification_question = <<"appearance", "personality">>
    THEN "ask_appearance_and_personality"
    ELSE IF clarification_question = <<"appearance">> THEN "ask_appearance"
    ELSE "ask_personality"

(***************************************************************************)
(* The texts a user sends.                                                 *)
(***************************************************************************)
TitleInputs ==
    {Padded(p, n, p) : p \in {0, 1}, n \in {MIN_TITLE - 1, MIN_TITLE, MAX_TITLE + 1}}

DescriptionInputs ==
    {Padded(p, n, p) : p \in {0, 1}, n \in {MIN_DESCRIPTION - 1, MIN_DESCRIPTION}}

NameInputs == {Padded(p, n, p) : p \in {0, 1}, n \in {MIN_NAME - 1, MIN_NAME}}

CompleteText == <<"C","v","e","t"," ","l","yu","b","i","t"," ">> \o Word(4)

CharacterInputs ==
    {Word(MIN_DESCRIPTION - 1), Padded(1, MIN_DESCRIPTION - 1, 1),
     Word(MIN_DESCRIPTION), CompleteText}

ClarificationInputs ==
    {Padded(p, n, p) : p \in {0, 1}, n \in {MIN_CLARIFICATION - 1, MIN_CLARIFICATION}}

HintInputs == {Word(1)}

(***************************************************************************)
(* State.                                                                  *)
(***************************************************************************)
VARIABLES
    bookConv,     \* state of create_book_conv ("END": not in the conversation)
    chapConv,     \* state of create_chapter_conv
    user_data,    \* context.user_data
    tasks,        \* the asyncio tasks created so far, by task id
    store,        \* the database: books, characters, chapters per book
    fin,          \* locals of a finish_characters call in progress
    trace,        \* what the finish_characters call in progress or just ended has done
    lastRender,   \* the message rendered last (error_reply: by error_handler)
    dropped,      \* tasks that were tracked when a cancel cleared user_data
    nFlows,       \* book-creation flows entered
    nChars,       \* character names accepted
    nFaults,      \* failed calls of the environment so far
    img,          \* the last call of generate_illustration: its inputs, calls, result
    batch,        \* the last run of generate_and_send_illustrations
    illus,        \* a generate_and_send_illustrations call in progress, step by step
    translator,   \* the Translator instance: its cache, provider calls made, last request
    sessions,     \* whose update is being handled, and what PTB keeps for the other user
    requests,     \* translation requests running in threads, and what the provider answered
    user_sessions \* the user's row of the table user_sessions, the clock, the last call

NoCall ==
    [pc |-> "idle"]

NoBatch ==
    [pc |-> "idle"]

NoRun ==
    [pc |-> "idle"]

NoTranslations ==
    [cache |-> << >>, calls |-> 0, last |-> [pc |-> "idle"]]

\* the threads that translate
Threads == {1, 2}

\* no thread is translating; answers: the pairs <<string, stripped text>> the
\* provider has returned so far; requested: the string requested last
NoRequests ==
    [threads |-> [th \in Threads |->
                     [pc |-> "idle", text |-> << >>, english_text |-> << >>,
                      result |-> << >>]],
     answers |-> {},
     requested |-> << >>]

\* data.get(key, default)
Get(data, key, default) == IF Has(data, key) THEN data[key] ELSE default

\* UserSettings(data) constructed at time `now`
UserSettings(data, now) ==
    [chapter_size |-> Get(data, "chapter_size", 600),
     chapter_pics |-> Get(data, "chapter_pics", 1),
     created_at |-> Get(data, "created_at", now),
     updated_at |-> now]

\* no row in user_sessions yet, no call of the settings manager made;
\* now: the clock; last: the last call, its argument, what it returned and the
\* settings it handed to update_user_settings
NoSession ==
    [exists |-> FALSE, session_data |-> << >>, now |-> 1,
     last |-> [op |-> "none", value |-> 0, success |-> FALSE,
               settings |-> UserSettings(<< >>, 0)]]

\* two users; the update in hand is of user 1, user 2 has not used the bot yet;
\* launched_by: the user in whose turn each task was created, filled in when
\* the user in hand changes
OneUser ==
    [current |-> 1,
     parked |-> [bookConv |-> "END", chapConv |-> "END", user_data |-> << >>],
     launched_by |-> << >>]

vars == <<bookConv, chapConv, user_data, tasks, store, fin, trace,
          lastRender, dropped, nFlows, nChars, nFaults, img, batch, illus,
          translator, sessions, requests, user_sessions>>

END == "END"

BookStates ==
    {END, "CREATE_BOOK_TITLE", "CREATE_BOOK_DESCRIPTION", "CREATE_CHARACTER_NAME",
     "CREATE_CHARACTER_DESCRIPTION", "CREATE_CHARACTER_CLARIFICATION",
     "ADD_MORE_CHARACTERS"}

Idle == [pc |-> "idle", book |-> 0, created |-> << >>, i |-> 0, references_created |-> 0]

Init ==
    /\ bookConv = END
    /\ chapConv = END
    /\ user_data = EmptyDict
    /\ tasks = << >>
    /\ store = [books |-> << >>, characters |-> << >>, chapters |-> << >>]
    /\ fin = Idle
    /\ trace = << >>
    /\ lastRender = "none"
    /\ dropped = {}
    /\ nFlows = 0
    /\ nChars = 0
    /\ nFaults = 0
    /\ img = NoCall
    /\ batch = NoBatch
    /\ illus = NoRun
    /\ translator = NoTranslations
    /\ sessions = OneUser
    /\ requests = NoRequests
    /\ user_sessions = NoSession

\* the pending job list of the session (absent counts as empty)
PendingJobs ==
    IF Has(user_data, "pending_references") THEN user_data["pending_references"] ELSE << >>

\* no handler is suspended: the next update can be processed
Ready == fin.pc = "idle"

\* the turn sees n failing calls of the environment
Faults(n) == nFaults + n <= MaxFaults /\ nFaults' = nFaults + n

NoFault == UNCHANGED nFaults

(***************************************************************************)
(* Book creation: the states of create_book_conv before CharacterMenu.     *)
(***************************************************************************)
start_create_book ==
    /\ Ready
    /\ bookConv = END
    /\ nFlows < MaxFlows
    /\ nFlows' = nFlows + 1
    /\ bookConv' = "CREATE_BOOK_TITLE"
    /\ lastRender' = "title_prompt"
    /\ trace' = << >>
    /\ UNCHANGED <<user_sessions, requests, sessions, translator, img, batch,
                   illus, chapConv, user_data, tasks, store, fin, dropped,
                   nChars, nFaults>>

\* the title taken as it was sent
TitleUnstripped(text) == text

\* the title as handle_book_title measures it
TitleOf(text) == strip(text)

handle_book_title(text) ==
    /\ Ready
    /\ bookConv = "CREATE_BOOK_TITLE"
    /\ LET title == TitleOf(text) IN
         IF Len(title) < MIN_TITLE
         THEN /\ lastRender' = "title_too_short"
              /\ UNCHANGED <<bookConv, user_data>>
         ELSE IF Len(title) > MAX_TITLE
         THEN /\ lastRender' = "title_too_long"
              /\ UNCHANGED <<bookConv, user_data>>
         ELSE /\ user_data' = Put(user_data, "book_title", title)
              /\ lastRender' = "description_prompt"
              /\ bookConv' = "CREATE_BOOK_DESCRIPTION"
    /\ trace' = << >>
    /\ UNCHANGED <<user_sessions, requests, sessions, translator, img, batch,
                   illus, chapConv, tasks, store, fin, dropped, nFlows,
                   nChars, nFaults>>

handle_book_description(text) ==
    /\ Ready
    /\ bookConv = "CREATE_BOOK_DESCRIPTION"
    /\ LET description == strip(text) IN
         IF Len(description) < MIN_DESCRIPTION
         THEN /\ lastRender' = "description_too_short"
              /\ UNCHANGED <<bookConv, user_data>>
         ELSE /\ user_data' = Put(Put(user_data, "book_description", description),
                                  "characters", << >>)
              /\ IF Has(user_data, "book_title")
                 THEN /\ lastRender' = "character_name_prompt"
                      /\ bookConv' = "CREATE_CHARACTER_NAME"
                 ELSE \* KeyError: 'book_title' while the reply is built
                      /\ lastRender' = "error_reply"
                      /\ UNCHANGED bookConv
    /\ trace' = << >>
    /\ UNCHANGED <<user_sessions, requests, sessions, translator, img, batch,
                   illus, chapConv, tasks, store, fin, dropped, nFlows,
                   nChars, nFaults>>

handle_character_name(text) ==
    /\ Ready
    /\ bookConv = "CREATE_CHARACTER_NAME"
    /\ LET name == strip(text) IN
         IF Len(name) < MIN_NAME
         THEN /\ lastRender' = "name_too_short"
              /\ UNCHANGED <<bookConv, user_data, nChars>>
         ELSE /\ nChars < MaxChars
              /\ nChars' = nChars + 1
              \* uid: which accepted name this dictionary was made for
              /\ user_data' = Put(user_data, "current_character",
                                  [name |-> name, uid |-> nChars + 1])
              /\ lastRender' = "character_description_prompt"
              /\ bookConv' = "CREATE_CHARACTER_DESCRIPTION"
    /\ trace' = << >>
    /\ UNCHANGED <<user_sessions, requests, sessions, translator, img, batch,
                   illus, chapConv, tasks, store, fin, dropped, nFlows,
                   nFaults>>

(***************************************************************************)
(* Launching a reference task.  created: whether the task object could be  *)
(* created; if not, the except clause logs and nothing is tracked.         *)
(***************************************************************************)
\* the launch waits for the task to finish
LaunchedSettled == "data"

\* the status a task has when the launching call returns
LaunchedStatus == "running"

NewTask(uid) == [for |-> uid, status |-> LaunchedStatus, awaits |-> 0]

PendingOf(ud) ==
    IF Has(ud, "pending_references") THEN ud["pending_references"] ELSE << >>

\* start_async_reference_generation_threaded: <<user_data, tasks>> afterwards
start_async_reference_generation_threaded(ud, tsk, char, description, created) ==
    IF created
    THEN <<Put(ud, "pending_references",
               Append(PendingOf(ud),
                      [task |-> Len(tsk) + 1, name |-> char["name"],
                       description |-> description])),
           Append(tsk, NewTask(char["uid"]))>>
    ELSE <<ud, tsk>>

\* finish_character_creation up to the first reply: user_data afterwards
\* (the caller checks that 'characters' is present)
AppendCharacter(ud) ==
    Put(ud, "characters", Append(ud["characters"], ud["current_character"]))

\* set current_character['full_description']
WithFull(ud, full_description) ==
    Put(ud, "current_character",
        Put(ud["current_character"], "full_description", full_description))

\* the except clause of handle_character_description, entered with user_data
\* ud and tasks tsk: <<user_data, tasks, conversation state, message>>;
\* delivered: whether the messages of finish_character_creation are delivered
DescriptionFallback(ud, tsk, description, created, delivered) ==
    LET full == WithFull(ud, description)
        l == start_async_reference_generation_threaded(
                 full, tsk, full["current_character"], description, created)
    IN  IF ~Has(l[1], "characters")
        THEN \* KeyError: 'characters', outside the try this time
             <<l[1], l[2], "CREATE_CHARACTER_DESCRIPTION", "error_reply">>
        ELSE IF delivered
        THEN <<AppendCharacter(l[1]), l[2], "ADD_MORE_CHARACTERS", "character_buttons">>
        ELSE <<AppendCharacter(l[1]), l[2], "CREATE_CHARACTER_DESCRIPTION", "error_reply">>

\* the handler after its length check: <<user_data, tasks, state, message>>;
\* created: whether asyncio.create_task works in this turn; failed_renders: how
\* many of the turn's messages (one in the try, one in the except clause) are
\* not delivered
DescriptionTurn(ud0, tsk, description, created, failed_renders) ==
    LET ud == Put(ud0, "current_character",
                  Put(ud0["current_character"], "original_description", description))
        analysis == analyze_character_description(description)
    IN  IF analysis.missing_fields # << >> /\ analysis.clarification_question # << >>
        THEN LET asked == Put(ud, "current_character",
                              Put(ud["current_character"], "needs_clarification", TRUE))
             IN  IF failed_renders = 0
                 THEN <<asked, tsk, "CREATE_CHARACTER_CLARIFICATION",
                        QuestionMessage(analysis.clarification_question)>>
                 ELSE DescriptionFallback(asked, tsk, description, created,
                                          failed_renders < 2)
        ELSE LET full == WithFull(ud, description)
                 l == start_async_reference_generation_threaded(
                          full, tsk, full["current_character"], description, created)
             IN  IF ~Has(l[1], "characters")
                 THEN DescriptionFallback(l[1], l[2], description, created, TRUE)
                 ELSE IF failed_renders = 0
                 THEN <<AppendCharacter(l[1]), l[2], "ADD_MORE_CHARACTERS",
                        "character_buttons">>
                 ELSE DescriptionFallback(AppendCharacter(l[1]), l[2], description,
                                          created, failed_renders < 2)

\* whether the turn gets as far as calling create_task
DescriptionLaunches(ud0, description, failed_renders) ==
    LET analysis == analyze_character_description(description)
    IN  ~(analysis.missing_fields # << >> /\ analysis.clarification_question # << >>)
        \/ failed_renders > 0

\* how many messages of finish_character_creation (or the question) the turn
\* tries to deliver at most
DescriptionRenders(ud0, description) ==
    LET analysis == analyze_character_description(description)
        asks == analysis.missing_fields # << >> /\ analysis.clarification_question # << >>
    IN  IF Has(ud0, "characters") THEN 2 ELSE IF asks THEN 1 ELSE 0

handle_character_description(text, created, failed_renders) ==
    /\ Ready
    /\ bookConv = "CREATE_CHARACTER_DESCRIPTION"
    /\ LET description == strip(text)
       IN
         IF Len(description) < MIN_DESCRIPTION
         THEN /\ created /\ failed_renders = 0
              /\ lastRender' = "description_too_short"
              /\ UNCHANGED <<bookConv, user_data, tasks, nFaults>>
         ELSE IF ~Has(user_data, "current_character")
         THEN \* KeyError before the try
              /\ created /\ failed_renders = 0
              /\ lastRender' = "error_reply"
              /\ UNCHANGED <<bookConv, user_data, tasks, nFaults>>
         ELSE
           LET turn == DescriptionTurn(user_data, tasks, description, created,
                                       failed_renders)
           IN
             /\ created \/ DescriptionLaunches(user_data, description, failed_renders)
             /\ failed_renders <= DescriptionRenders(user_data, description)
             /\ Faults((IF created THEN 0 ELSE 1) + failed_renders)
             /\ user_data' = turn[1]
             /\ tasks' = turn[2]
             /\ bookConv' = turn[3]
             /\ lastRender' = turn[4]
    /\ Len(tasks') <= MaxJobs
    /\ trace' = << >>
    /\ UNCHANGED <<user_sessions, requests, sessions, translator, img, batch,
                   illus, chapConv, store, fin, dropped, nFlows, nChars>>

\* delivered: whether the messages of finish_character_creation are delivered
handle_character_clarification(text, created, delivered) ==
    /\ Ready
    /\ bookConv = "CREATE_CHARACTER_CLARIFICATION"
    /\ LET additional_info == strip(text)
       IN
         IF Len(additional_info) < MIN_CLARIFICATION
         THEN /\ created /\ delivered
              /\ lastRender' = "clarification_too_short"
              /\ UNCHANGED <<bookConv, user_data, tasks, nFaults>>
         ELSE IF \/ ~Has(user_data, "current_character")
                 \/ ~Has(user_data["current_character"], "original_description")
         THEN \* KeyError
              /\ created /\ delivered
              /\ lastRender' = "error_reply"
              /\ UNCHANGED <<bookConv, user_data, tasks, nFaults>>
         ELSE
           LET cc == user_data["current_character"]
               full_description == cc["original_description"] \o <<".", " ">> \o additional_info
               full == WithFull(user_data, full_description)
               l == start_async_reference_generation_threaded(
                        full, tasks, full["current_character"], full_description, created)
           IN
             /\ Faults((IF created THEN 0 ELSE 1) + (IF delivered THEN 0 ELSE 1))
             /\ tasks' = l[2]
             /\ IF ~Has(l[1], "characters")
                THEN \* KeyError: 'characters' in finish_character_creation
                     /\ delivered
                     /\ user_data' = l[1]
                     /\ lastRender' = "error_reply"
                     /\ UNCHANGED bookConv
                ELSE /\ user_data' = AppendCharacter(l[1])
                     /\ IF delivered
                        THEN /\ lastRender' = "character_buttons"
                             /\ bookConv' = "ADD_MORE_CHARACTERS"
                        ELSE /\ lastRender' = "error_reply"
                             /\ UNCHANGED bookConv
    /\ Len(tasks') <= MaxJobs
    /\ trace' = << >>
    /\ UNCHANGED <<user_sessions, requests, sessions, translator, img, batch,
                   illus, chapConv, store, fin, dropped, nFlows, nChars>>

add_more_characters ==
    /\ Ready
    /\ bookConv = "ADD_MORE_CHARACTERS"
    /\ bookConv' = "CREATE_CHARACTER_NAME"
    /\ lastRender' = "another_name_prompt"
    /\ trace' = << >>
    /\ UNCHANGED <<user_sessions, requests, sessions, translator, img, batch,
                   illus, chapConv, user_data, tasks, store, fin, dropped,
                   nFlows, nChars, nFaults>>

(***************************************************************************)
(* A reference task settles: it returns image data, returns nothing, or    *)
(* raises.                                                                 *)
(***************************************************************************)
TaskOutcomes == {"data", "none", "raised"}

TaskSettles(j, outcome) ==
    /\ j \in 1..Len(tasks)
    /\ tasks[j].status = "running"
    /\ tasks' = [tasks EXCEPT ![j].status = outcome]
    /\ UNCHANGED <<user_sessions, requests, sessions, translator, img, batch,
                   illus, bookConv, chapConv, user_data, store, fin, trace,
                   lastRender, dropped, nFlows, nChars, nFaults>>

(***************************************************************************)
(* finish_characters.  The call is suspended at each `await pending[task]` *)
(* until that task has settled: FinishBegin runs it up to the first such   *)
(* await, FinishJoinStep resumes it once per pending entry.                *)
(***************************************************************************)
SaveOutcomes == {"ok", "false", "raised"}

\* user_data when finish_characters has sent the summary
AfterSummary(ud) == EmptyDict

\* user_data when finish_characters leaves through its except clause
AfterFinishError(ud) == ud

\* the task is not awaited: its result is taken at once
SettledAlways(j) == TRUE

\* `await task` returns or raises only when the task has settled
Settled(j) == tasks[j].status # "running"

\* the loop runs over the list from its end
JoinTaskReversed(pending, i) == pending[Len(pending) - i + 1].task

\* the task awaited in iteration i of the loop over pending_references
JoinTask(pending, i) == pending[i].task

NewCharacter(book, char) == [book |-> book, uid |-> char["uid"], ref |-> 0]

\* every reference goes to the first character of the book
FirstCreated(created_characters, i) == created_characters[1]

\* character = created_characters[i]: the stored character iteration i saves to
created_character(created_characters, i) == created_characters[i]

\* the except clause: error message, ConversationHandler.END
FinishFails ==
    /\ user_data' = AfterFinishError(user_data)
    /\ lastRender' = "finish_error"
    /\ bookConv' = END
    /\ fin' = Idle

\* send_final_book_creation_message delivered, then the clean-up
FinishSucceeds(references_created) ==
    /\ user_data' = AfterSummary(user_data)
    /\ lastRender' = "book_created"
    /\ bookConv' = END
    /\ fin' = Idle

\* the task ids of a pending list, in list order
JobsOf(pending) == [k \in 1..Len(pending) |-> pending[k].task]

\* failAt: the store call that raises (0: get_or_create_user or create_book,
\* k: create_character of the k-th draft character, beyond: none);
\* summary_sent: whether the message sent after the commits (the progress
\* message if jobs are pending, the final message otherwise) is delivered
FinishBegin(failAt, summary_sent) ==
    /\ Ready
    /\ bookConv = "ADD_MORE_CHARACTERS"
    /\ LET drafts == IF Has(user_data, "characters") THEN user_data["characters"] ELSE << >>
           book == Len(store.books) + 1
           first == Len(store.characters) + 1
           made == IF failAt \in 1..Len(drafts) THEN failAt - 1 ELSE Len(drafts)
           withBook ==
               [store EXCEPT !.books = Append(@, [title |-> user_data["book_title"],
                                                  description |-> user_data["book_description"]]),
                             !.chapters = Append(@, << >>),
                             !.characters =
                                 @ \o [k \in 1..made |-> NewCharacter(book, drafts[k])]]
           pending == PendingOf(user_data)
           commit == [e |-> "commit", book |-> book, n |-> Len(drafts),
                      jobs |-> JobsOf(pending)]
       IN
         /\ failAt \in 0..(Len(drafts) + 1)
         /\ IF ~Has(user_data, "book_title") \/ ~Has(user_data, "book_description")
            THEN \* KeyError while the arguments of create_book are built
                 /\ failAt = Len(drafts) + 1 /\ summary_sent
                 /\ NoFault
                 /\ FinishFails
                 /\ trace' = << >>
                 /\ UNCHANGED store
            ELSE IF failAt = 0
            THEN /\ summary_sent
                 /\ Faults(1)
                 /\ FinishFails
                 /\ trace' = << >>
                 /\ UNCHANGED store
            ELSE IF ~Has(user_data, "characters")
            THEN \* KeyError: 'characters', after create_book
                 /\ failAt = Len(drafts) + 1 /\ summary_sent
                 /\ NoFault
                 /\ FinishFails
                 /\ trace' = << >>
                 /\ store' = withBook
            ELSE IF failAt \in 1..Len(drafts)
            THEN /\ summary_sent
                 /\ Faults(1)
                 /\ FinishFails
                 /\ trace' = << >>
                 /\ store' = withBook
            ELSE IF pending # << >> /\ ~summary_sent
            THEN \* the progress message is not delivered: the join is not entered
                 /\ Faults(1)
                 /\ FinishFails
                 /\ trace' = << >>
                 /\ store' = withBook
            ELSE IF pending # << >>
            THEN /\ NoFault
                 /\ store' = withBook
                 /\ trace' = <<commit>>
                 /\ lastRender' = "finishing_portraits"
                 /\ fin' = [pc |-> "join", book |-> book,
                            created |-> [k \in 1..Len(drafts) |-> first + k - 1],
                            i |-> 1, references_created |-> 0]
                 /\ UNCHANGED <<bookConv, user_data>>
            ELSE /\ store' = withBook
                 /\ IF summary_sent
                    THEN /\ NoFault
                         /\ FinishSucceeds(0)
                         /\ trace' = <<commit, [e |-> "summary", n |-> 0]>>
                    ELSE /\ Faults(1)
                         /\ FinishFails
                         /\ trace' = <<commit>>
    /\ UNCHANGED <<user_sessions, requests, sessions, translator, img, batch,
                   illus, chapConv, tasks, dropped, nFlows, nChars>>

\* what iteration i of the loop does with the settled task j; save: what
\* save_character_reference_data does if it is called
JoinOutcome(j, i, save) ==
    IF tasks[j].status = "raised" THEN "task_error"
    ELSE IF i > Len(fin.created) THEN "index_error"       \* created_characters[i]
    ELSE IF tasks[j].status # "data" THEN "no_data"
    ELSE IF save = "ok" THEN "saved"
    ELSE IF save = "false" THEN "not_saved"
    ELSE "save_error"

JoinErrors == {"task_error", "index_error", "save_error"}

\* no try inside the loop
LoopCatchesNothing(outcome) == FALSE

\* `except Exception` inside the loop: every error of an iteration is caught
\* there and logged
LoopCatches(outcome) == TRUE

FinishJoinStep(save, summary_sent) ==
    /\ fin.pc = "join"
    /\ LET pending == user_data["pending_references"]
           i == fin.i
           j == JoinTask(pending, i)
           outcome == JoinOutcome(j, i, save)
           count == fin.references_created + (IF outcome = "saved" THEN 1 ELSE 0)
           awaited == Append(trace, [e |-> "await", n |-> j, outcome |-> outcome])
       IN
         /\ Settled(j)
         /\ tasks' = [tasks EXCEPT ![j].awaits = @ + 1]
         /\ store' = IF outcome = "saved"
                     THEN [store EXCEPT !.characters[created_character(fin.created, i)].ref = j]
                     ELSE store
         /\ IF outcome \in JoinErrors /\ ~LoopCatches(outcome)
            THEN \* the error leaves the loop: the outer except clause
                 /\ summary_sent
                 /\ NoFault
                 /\ FinishFails
                 /\ trace' = trace
            ELSE IF i < Len(pending)
            THEN /\ summary_sent
                 /\ NoFault
                 /\ fin' = [fin EXCEPT !.i = i + 1, !.references_created = count]
                 /\ trace' = awaited
                 /\ lastRender' = IF outcome = "saved" THEN "portrait" ELSE lastRender
                 /\ UNCHANGED <<bookConv, user_data>>
            ELSE IF summary_sent
            THEN /\ NoFault
                 /\ FinishSucceeds(count)
                 /\ trace' = Append(awaited, [e |-> "summary", n |-> count])
            ELSE /\ Faults(1)
                 /\ FinishFails
                 /\ trace' = awaited
    /\ UNCHANGED <<user_sessions, requests, sessions, translator, img, batch,
                   illus, chapConv, dropped, nFlows, nChars>>

(***************************************************************************)
(* /start and the main_menu button: handled outside the conversations,     *)
(* whatever state they are in.  store_ok: whether the store calls of       *)
(* start_command succeed.                                                  *)
(***************************************************************************)
start_command(store_ok) ==
    /\ Ready
    /\ IF store_ok
       THEN /\ NoFault
            /\ lastRender' = "main_menu"
       ELSE /\ Faults(1)
            /\ lastRender' = "error_reply"
    /\ trace' = << >>
    /\ UNCHANGED <<user_sessions, requests, sessions, translator, img, batch,
                   illus, bookConv, chapConv, user_data, tasks, store, fin,
                   dropped, nFlows, nChars>>

(***************************************************************************)
(* /cancel: the fallback of both conversations.  create_book_conv is       *)
(* registered first, so it takes the command whenever it is in a state;    *)
(* create_chapter_conv takes it otherwise.  A handler that raises leaves   *)
(* the state of its conversation as it was.                                *)
(***************************************************************************)
\* the drafts are removed, the job list is kept
AfterCancelKeepsJobs(ud) ==
    IF Has(ud, "pending_references")
    THEN [key \in {"pending_references"} |-> ud[key]]
    ELSE EmptyDict

\* user_data after cancel_conversation
AfterCancel(ud) == EmptyDict

TrackedTasks(ud) == {PendingOf(ud)[k].task : k \in 1..Len(PendingOf(ud))}

cancel_conversation(store_ok) ==
    /\ Ready
    /\ bookConv # END \/ chapConv # END
    /\ user_data' = AfterCancel(user_data)
    /\ dropped' = dropped \cup TrackedTasks(user_data)
    /\ IF store_ok
       THEN /\ NoFault
            /\ lastRender' = "main_menu"
            /\ IF bookConv # END
               THEN bookConv' = END /\ UNCHANGED chapConv
               ELSE chapConv' = END /\ UNCHANGED bookConv
       ELSE \* start_command raises after the clear and the first reply
            /\ Faults(1)
            /\ lastRender' = "error_reply"
            /\ UNCHANGED <<bookConv, chapConv>>
    /\ trace' = << >>
    /\ UNCHANGED <<user_sessions, requests, sessions, translator, img, batch,
                   illus, tasks, store, fin, nFlows, nChars>>

(***************************************************************************)
(* Two users.  python-telegram-bot keeps one user_data dictionary and one  *)
(* state per conversation for every user, and handles the updates one at a *)
(* time: the handler of an update has returned before the next update is   *)
(* taken.  bookConv, chapConv and user_data are those of the user whose    *)
(* update is in hand; sessions.parked holds those of the other user.       *)
(***************************************************************************)
\* one dictionary for all users
SharedUserData(own, previous) == previous

\* context.user_data in a handler: the dictionary of the update's user
context_user_data(own, previous) == own

\* the user in whose turn each task was created
LaunchedBy ==
    sessions.launched_by
      \o [k \in 1..(Len(tasks) - Len(sessions.launched_by)) |-> sessions.current]

\* the next update comes from the other user
OtherUser ==
    /\ Ready
    /\ sessions' = [current |-> 3 - sessions.current,
                    parked |-> [bookConv |-> bookConv, chapConv |-> chapConv,
                                user_data |-> user_data],
                    launched_by |-> LaunchedBy]
    /\ bookConv' = sessions.parked.bookConv
    /\ chapConv' = sessions.parked.chapConv
    /\ user_data' = context_user_data(sessions.parked.user_data, user_data)
    /\ UNCHANGED <<tasks, store, fin, trace, lastRender, dropped, nFlows, nChars, nFaults,
                   img, batch, illus, translator, requests, user_sessions>>

(***************************************************************************)
(* Chapter creation: create_chapter_conv.  Its callbacks match no handler  *)
(* of create_book_conv, so they reach it in every state of the book flow.  *)
(***************************************************************************)
\* the book ids a button can carry; 0 stands for an id no book has
BookIds == 0..Len(store.books)

TotalChapters ==
    LET RECURSIVE sum(_)
        sum(k) == IF k = 0 THEN 0 ELSE Len(store.chapters[k]) + sum(k - 1)
    IN  sum(Len(store.chapters))

\* start_create_chapter and start_create_chapter_direct
EnterChapter(h, b, store_ok) ==
    /\ Ready
    /\ chapConv = END
    /\ b \in BookIds
    /\ IF ~store_ok
       THEN /\ Faults(1)
            /\ lastRender' = "error_answer"
            /\ UNCHANGED <<chapConv, user_data>>
       ELSE IF b = 0
       THEN /\ NoFault
            /\ lastRender' = "book_not_found"
            /\ UNCHANGED <<chapConv, user_data>>
       ELSE /\ NoFault
            /\ user_data' = Put(user_data, "current_book_id", b)
            /\ lastRender' = "chapter_choice"
            /\ chapConv' = "CHAPTER_HINT"
    /\ trace' = << >>
    /\ UNCHANGED <<user_sessions, requests, sessions, translator, img, batch,
                   illus, bookConv, tasks, store, fin, dropped, nFlows,
                   nChars>>

start_create_chapter(b, store_ok) == EnterChapter("start_create_chapter", b, store_ok)

continue_book(b, store_ok) == EnterChapter("continue_book", b, store_ok)

ask_for_hint(store_ok) ==
    /\ Ready
    /\ chapConv = "CHAPTER_HINT"
    /\ IF ~Has(user_data, "current_book_id")
       THEN \* KeyError: nothing catches it
            /\ store_ok
            /\ NoFault
            /\ lastRender' = "error_reply"
       ELSE IF store_ok
       THEN /\ NoFault
            /\ lastRender' = "hint_prompt"
       ELSE \* a store call raises: nothing catches it
            /\ Faults(1)
            /\ lastRender' = "error_reply"
    /\ trace' = << >>
    /\ UNCHANGED <<user_sessions, requests, sessions, translator, img, batch,
                   illus, bookConv, chapConv, user_data, tasks, store, fin,
                   dropped, nFlows, nChars>>

\* user_settings.chapter_pics: the number of illustrations requested
ChapterPics == 1..3

\* what becomes of one prompt: an image that send_photo delivers, no image,
\* an exception of the generation, an image that send_photo fails to deliver
ImageOutcomes == {"image", "none", "raises", "unsent"}

\* the environment of one run of generate_and_send_illustrations:
\*   n          num_illustrations
\*   before_ok  the prompts are generated and the progress message is sent
\*   outcomes   per prompt returned, what becomes of it
\*   update_ok  db.update_chapter_illustration succeeds
\*   report_ok  the closing message is delivered
\*   error_ok   the message of the outer except is delivered
Batches(pics, lengths, flags) ==
    [n : pics, before_ok : flags, update_ok : flags, report_ok : flags, error_ok : flags,
     outcomes : UNION {[1..k -> ImageOutcomes] : k \in lengths}]

\* as many prompts as requested, every message delivered
SimpleBatches == {b \in Batches({1}, {1}, {TRUE}) : b.outcomes[1] \in {"image", "none"}}

AllBatches == Batches(ChapterPics, 0..3, BOOLEAN)

\* every run closes with the message of a failed batch
StatisticsAlwaysFailure(successful_illustrations, num_illustrations) ==
    "illustrations_failed"

\* the closing message; with one requested illustration a success is only logged
Statistics(successful_illustrations, num_illustrations) ==
    IF successful_illustrations > 0
    THEN IF num_illustrations = 1 THEN "none" ELSE "created_k_of_n"
    ELSE "illustrations_failed"

\* generate_and_send_illustrations: the number of images delivered, the
\* message that closes the run and the illustration of the chapter record
\* (0: none, i: the image of prompt i)
generate_and_send_illustrations(b, illustration_url) ==
    LET results == IF b.before_ok THEN b.outcomes ELSE << >>
        successful_illustrations ==
            Cardinality({i \in 1..Len(results) : results[i] = "image"})
        closing == Statistics(successful_illustrations, b.n)
        raised == ~b.before_ok \/ (closing # "none" /\ ~b.report_ok)
    IN  [successful_illustrations |-> successful_illustrations,
         report |-> IF ~raised THEN closing
                    ELSE IF b.error_ok THEN "illustrations_error" ELSE "none",
         illustration_url |->
             IF Len(results) >= 1 /\ results[1] = "image" /\ b.update_ok
             THEN 1 ELSE illustration_url]

\* every chapter is numbered 1
FirstChapterNumber(chapters) == 1

\* next_chapter_num = len(chapters) + 1
next_chapter_num(chapters) == Len(chapters) + 1

\* where the turn of a chapter handler raises: nowhere, when its progress
\* message is sent (generate_chapter is not called), before the chapter is
\* stored, when the chapter is shown, when the navigation message is sent
PipelineOutcomes == {"ok", "progress", "before", "show", "nav"}

\* generate_chapter: the store, the message rendered last and the last
\* illustration run afterwards
generate_chapter(ud, outcome, b) ==
    IF ~Has(ud, "current_book_id") \/ outcome = "before"
    THEN [store |-> store, render |-> "chapter_error", batch |-> batch]
    ELSE LET book_id == ud["current_book_id"]
             number == next_chapter_num(store.chapters[book_id])
             chapter == [chapter_number |-> number, illustration_url |-> 0]
             run == generate_and_send_illustrations(b, chapter.illustration_url)
         IN  IF outcome = "show"
             THEN [store |-> [store EXCEPT !.chapters[book_id] = Append(@, chapter)],
                   render |-> "chapter_error", batch |-> batch]
             ELSE [store |-> [store EXCEPT !.chapters[book_id] =
                                 Append(@, [chapter EXCEPT !.illustration_url =
                                                run.illustration_url])],
                   render |-> IF outcome = "ok" THEN "chapter_ready" ELSE "chapter_error",
                   batch |-> [pc |-> "done", book |-> book_id,
                              chapter |-> number, input |-> b,
                              successful_illustrations |-> run.successful_illustrations,
                              report |-> run.report]]

\* whether generate_chapter ends in its except clause
PipelineFails(ud, outcome) ==
    ~Has(ud, "current_book_id") \/ outcome \in {"before", "show", "nav"}

\* the failing calls a turn of a chapter handler sees; error_sent: whether
\* the message of the except clause of generate_chapter is delivered
PipelineFaults(ud, outcome, error_sent) ==
    /\ outcome \in {"ok", "progress"} \/ Has(ud, "current_book_id")
    /\ error_sent \/ (outcome # "progress" /\ PipelineFails(ud, outcome))
    /\ Faults((IF outcome = "ok" THEN 0 ELSE 1) + (IF error_sent THEN 0 ELSE 1))

\* the handler goes back to CHAPTER_HINT when the chapter could not be made
RetryAfterError(render) == IF render = "chapter_error" THEN "CHAPTER_HINT" ELSE END

\* `return ConversationHandler.END` after generate_chapter has returned
AfterPipeline(render) == END

\* what both chapter handlers do once their progress message is on its way;
\* a handler that raises leaves the state of the conversation as it was
ChapterTurn(ud, outcome, b, error_sent) ==
    IF outcome = "progress"
    THEN /\ lastRender' = "error_reply"
         /\ UNCHANGED <<store, batch, chapConv>>
    ELSE LET g == generate_chapter(ud, outcome, b) IN
           /\ store' = g.store
           /\ batch' = g.batch
           /\ IF error_sent
              THEN /\ lastRender' = g.render
                   /\ chapConv' = AfterPipeline(g.render)
              ELSE /\ lastRender' = "error_reply"
                   /\ UNCHANGED chapConv

auto_generate_chapter(outcome, b, error_sent) ==
    /\ Ready
    /\ chapConv = "CHAPTER_HINT"
    /\ PipelineFaults(user_data, outcome, error_sent)
    /\ ChapterTurn(user_data, outcome, b, error_sent)
    /\ trace' = << >>
    /\ UNCHANGED <<user_sessions, requests, sessions, translator, img, illus,
                   bookConv, user_data, tasks, fin, dropped, nFlows, nChars>>

\* a text reaches create_chapter_conv only if create_book_conv has no text
\* handler in its state
handle_chapter_hint(text, outcome, b, error_sent) ==
    /\ Ready
    /\ chapConv = "CHAPTER_HINT"
    /\ bookConv \in {END, "ADD_MORE_CHARACTERS"}
    /\ PipelineFaults(user_data, outcome, error_sent)
    /\ user_data' = Put(user_data, "chapter_hint", strip(text))
    /\ ChapterTurn(user_data', outcome, b, error_sent)
    /\ trace' = << >>
    /\ UNCHANGED <<user_sessions, requests, sessions, translator, img, illus,
                   bookConv, tasks, fin, dropped, nFlows, nChars>>

(***************************************************************************)
(* generate_and_send_illustrations step by step: the loop that creates the *)
(* tasks, the gather that waits for them, the loop over the results and    *)
(* the closing message.  illus is                                          *)
(*   [pc, n, prompts, tasks, i, handled, successful_illustrations, report] *)
(* tasks: per created task "running" or what it settled to; handled: per   *)
(* result processed, what the loop did with it.  A task runs only while    *)
(* the call is suspended in gather: the creating loop has no await.        *)
(***************************************************************************)
\* what a generation task settles to: a path or url, None, an exception
GenerationOutcomes == {"image", "none", "raises"}

\* gather(*tasks): the first exception of a task is raised to the caller
ReturnExceptionsOff == FALSE

\* gather(*tasks, return_exceptions=True)
return_exceptions == TRUE

\* the run ends in the outer except clause
IllustrationsRaise(run, error_ok) ==
    [run EXCEPT !.pc = "done",
                !.report = IF error_ok THEN "illustrations_error" ELSE "none"]

\* the prompts are generated and the progress message is sent
IllustrationsStart(n, prompts, before_ok, error_ok) ==
    /\ illus.pc = "idle"
    /\ LET run == [pc |-> "create", n |-> n, prompts |-> prompts, tasks |-> << >>,
                   i |-> 1, handled |-> << >>, successful_illustrations |-> 0,
                   report |-> "none", order |-> << >>, sent_photos |-> << >>,
                   illustration_url |-> 0]
       IN  illus' = IF before_ok THEN run
                    ELSE IllustrationsRaise([run EXCEPT !.prompts = 0], error_ok)
    /\ before_ok => error_ok
    /\ UNCHANGED <<user_sessions, requests, sessions, translator, img, batch,
                   bookConv, chapConv, user_data, tasks, store, fin, trace,
                   lastRender, dropped, nFlows, nChars, nFaults>>

\* one iteration of the loop over illustration_prompts: asyncio.create_task
IllustrationTaskCreate ==
    /\ illus.pc = "create"
    /\ Len(illus.tasks) < illus.prompts
    /\ illus' = [illus EXCEPT !.tasks = Append(@, "running")]
    /\ UNCHANGED <<user_sessions, requests, sessions, translator, img, batch,
                   bookConv, chapConv, user_data, tasks, store, fin, trace,
                   lastRender, dropped, nFlows, nChars, nFaults>>

\* the loop is over: the call is suspended in `await asyncio.gather(...)`
IllustrationsGather ==
    /\ illus.pc = "create"
    /\ Len(illus.tasks) = illus.prompts
    /\ illus' = [illus EXCEPT !.pc = "gather"]
    /\ UNCHANGED <<user_sessions, requests, sessions, translator, img, batch,
                   bookConv, chapConv, user_data, tasks, store, fin, trace,
                   lastRender, dropped, nFlows, nChars, nFaults>>

IllustrationSettles(k, outcome) ==
    /\ illus.pc = "gather"
    /\ k \in 1..Len(illus.tasks)
    /\ illus.tasks[k] = "running"
    /\ illus' = [illus EXCEPT !.tasks[k] = outcome, !.order = Append(@, k)]
    /\ UNCHANGED <<user_sessions, requests, sessions, translator, img, batch,
                   bookConv, chapConv, user_data, tasks, store, fin, trace,
                   lastRender, dropped, nFlows, nChars, nFaults>>

\* gather returns the list of results, or raises the exception of a task
GatherReturns(error_ok) ==
    /\ illus.pc = "gather"
    /\ IF ~return_exceptions /\ \E k \in 1..Len(illus.tasks) : illus.tasks[k] = "raises"
       THEN illus' = IllustrationsRaise(illus, error_ok)
       ELSE /\ error_ok
            /\ \A k \in 1..Len(illus.tasks) : illus.tasks[k] # "running"
            /\ illus' = [illus EXCEPT !.pc = "process"]
    /\ UNCHANGED <<user_sessions, requests, sessions, translator, img, batch,
                   bookConv, chapConv, user_data, tasks, store, fin, trace,
                   lastRender, dropped, nFlows, nChars, nFaults>>

\* the results are taken as the tasks complete
CompletionOrder(run) == run.order

\* zip(tasks, results): gather returns the results in the order of its
\* arguments, so position p of the loop has the result of request p
ResultOrder(run) == [p \in 1..Len(run.tasks) |-> p]

\* one iteration of the loop over the results; sent: whether send_photo
\* delivers the image; stored: whether update_chapter_illustration succeeds.
\* handled is kept per position of the loop, sent_photos lists the requests
\* whose image was delivered, in the order of delivery, illustration_url is
\* the request whose image is on the chapter record (0: none)
IllustrationProcess(sent, stored) ==
    /\ illus.pc = "process"
    /\ illus.i <= Len(illus.tasks)
    /\ LET request == ResultOrder(illus)[illus.i]
           result == illus.tasks[request]
       IN
         /\ result = "image" \/ sent
         /\ (result = "image" /\ sent /\ illus.i = 1) \/ stored
         /\ illus' = [illus EXCEPT
                !.i = @ + 1,
                !.handled = Append(@, IF result = "raises" THEN "skipped"
                                      ELSE IF result = "none" THEN "no_image"
                                      ELSE IF sent THEN "delivered" ELSE "unsent"),
                !.successful_illustrations =
                    IF result = "image" /\ sent THEN @ + 1 ELSE @,
                !.sent_photos =
                    IF result = "image" /\ sent THEN Append(@, request) ELSE @,
                !.illustration_url =
                    IF result = "image" /\ sent /\ illus.i = 1 /\ stored
                    THEN request ELSE @]
    /\ UNCHANGED <<user_sessions, requests, sessions, translator, img, batch,
                   bookConv, chapConv, user_data, tasks, store, fin, trace,
                   lastRender, dropped, nFlows, nChars, nFaults>>

\* the closing statistics
IllustrationsClose(report_ok, error_ok) ==
    /\ illus.pc = "process"
    /\ illus.i > Len(illus.tasks)
    /\ LET closing == Statistics(illus.successful_illustrations, illus.n) IN
         /\ (closing = "none" \/ report_ok) => error_ok
         /\ closing = "none" => report_ok
         /\ illus' = IF closing = "none" \/ report_ok
                     THEN [illus EXCEPT !.pc = "done", !.report = closing]
                     ELSE IllustrationsRaise(illus, error_ok)
    /\ UNCHANGED <<user_sessions, requests, sessions, translator, img, batch,
                   bookConv, chapConv, user_data, tasks, store, fin, trace,
                   lastRender, dropped, nFlows, nChars, nFaults>>

NextGather ==
    \/ /\ illus.pc = "idle"
       /\ \E n \in ChapterPics, prompts \in 0..3, before_ok, error_ok \in BOOLEAN :
              IllustrationsStart(n, prompts, before_ok, error_ok)
    \/ IllustrationTaskCreate
    \/ IllustrationsGather
    \/ \E k \in 1..3, outcome \in GenerationOutcomes : IllustrationSettles(k, outcome)
    \/ \E error_ok \in BOOLEAN : GatherReturns(error_ok)
    \/ \E sent, stored \in BOOLEAN : IllustrationProcess(sent, stored)
    \/ \E report_ok, error_ok \in BOOLEAN : IllustrationsClose(report_ok, error_ok)

SpecGather == Init /\ [][NextGather]_vars

(***************************************************************************)
(* utils/translator.py.  translator is [cache, calls, last]: the _cache    *)
(* dictionary, the number of generate_content requests made, and the last  *)
(* request [text, result, asked] (asked: whether it went to the provider). *)
(* The provider's answer to a request is [kind, text]: the call raises,    *)
(* the response has no text, or it has the text given.                     *)
(***************************************************************************)
MaxTranslations == 4       \* provider requests made by the translator

\* strings to translate: the same word with and without white space around it
TranslationTexts == {Word(1), Padded(1, 1, 0), Padded(0, 1, 1)}

ResponseTexts == {<< >>, <<" ">>, <<"a">>, <<" ", "a", " ">>, <<"b">>}

TranslationResponses ==
    {[kind |-> k, text |-> << >>] : k \in {"raises", "no_text"}}
    \cup {[kind |-> "text", text |-> t] : t \in ResponseTexts}

\* `hasattr(response, 'text') and response.text`
HasText(response) == response.kind = "text" /\ response.text # << >>

\* the original text is stored as its own translation
CacheOriginal(cache, russian_text) == Put(cache, russian_text, russian_text)

\* the cache when the request has failed: nothing is stored
AfterFailedTranslation(cache, russian_text) == cache

\* translate_to_english and translate_to_english_sync (the same statements):
\* the translator afterwards; last.result is the value returned
translate_to_english(tr, russian_text, response) ==
    IF Has(tr.cache, russian_text)
    THEN [tr EXCEPT !.last = [text |-> russian_text, result |-> tr.cache[russian_text],
                              asked |-> FALSE]]
    ELSE IF HasText(response)
    THEN LET english_text == strip(response.text) IN
           [cache |-> Put(tr.cache, russian_text, english_text),
            calls |-> tr.calls + 1,
            last |-> [text |-> russian_text, result |-> english_text, asked |-> TRUE]]
    ELSE [cache |-> AfterFailedTranslation(tr.cache, russian_text),
          calls |-> tr.calls + 1,
          last |-> [text |-> russian_text, result |-> russian_text, asked |-> TRUE]]

\* one request to the translator, run from its first statement to its return
Translate(russian_text, response) ==
    /\ Has(translator.cache, russian_text) \/ translator.calls < MaxTranslations
    /\ translator' = translate_to_english(translator, russian_text, response)
    /\ UNCHANGED <<user_sessions, bookConv, chapConv, user_data, tasks, store,
                   fin, trace, lastRender, dropped, nFlows, nChars, nFaults,
                   img, batch, illus, sessions, requests>>

NextTranslate ==
    \E russian_text \in TranslationTexts, response \in TranslationResponses :
        Translate(russian_text, response)

SpecTranslate == Init /\ [][NextTranslate]_vars

(***************************************************************************)
(* translate_to_english_sync run by several threads at once.  A thread can *)
(* be suspended between any two statements; one dictionary operation is    *)
(* one step.  A request is at "asking" while generate_content runs, at     *)
(* "storing" when it has the stripped text and has not written the cache   *)
(* yet, and at "returned" when the function has returned result.           *)
(***************************************************************************)
\* the entry is written under the string that was requested last
LastRequested(russian_text, requested) == requested

\* self._cache[russian_text] = english_text: the key is the argument of the call
cache_key(russian_text, requested) == russian_text

Returned(russian_text, result) ==
    [pc |-> "returned", text |-> russian_text, english_text |-> << >>,
     result |-> result]

\* the call starts: the cache lookup, and the return of the cached value
SyncBegin(th, russian_text) ==
    /\ requests.threads[th].pc = "idle"
    /\ IF Has(translator.cache, russian_text)
       THEN /\ requests' = [requests EXCEPT
                   !.threads[th] = Returned(russian_text, translator.cache[russian_text]),
                   !.requested = russian_text]
            /\ translator' = [translator EXCEPT
                   !.last = [text |-> russian_text,
                             result |-> translator.cache[russian_text],
                             asked |-> FALSE]]
       ELSE /\ translator.calls < MaxTranslations
            /\ requests' = [requests EXCEPT
                   !.threads[th] = [pc |-> "asking", text |-> russian_text,
                                    english_text |-> << >>, result |-> << >>],
                   !.requested = russian_text]
            /\ translator' = [translator EXCEPT !.calls = @ + 1]
    /\ UNCHANGED <<user_sessions, bookConv, chapConv, user_data, tasks, store,
                   fin, trace, lastRender, dropped, nFlows, nChars, nFaults,
                   img, batch, illus, sessions>>

\* generate_content returns or raises
SyncAnswer(th, response) ==
    /\ requests.threads[th].pc = "asking"
    /\ LET russian_text == requests.threads[th].text IN
         IF HasText(response)
         THEN /\ requests' = [requests EXCEPT
                     !.threads[th].pc = "storing",
                     !.threads[th].english_text = strip(response.text),
                     !.answers = @ \cup {<<russian_text, strip(response.text)>>}]
              /\ UNCHANGED translator
         ELSE /\ requests' = [requests EXCEPT
                     !.threads[th] = Returned(russian_text, russian_text)]
              /\ translator' = [translator EXCEPT
                     !.cache = AfterFailedTranslation(@, russian_text),
                     !.last = [text |-> russian_text, result |-> russian_text,
                               asked |-> TRUE]]
    /\ UNCHANGED <<user_sessions, bookConv, chapConv, user_data, tasks, store,
                   fin, trace, lastRender, dropped, nFlows, nChars, nFaults,
                   img, batch, illus, sessions>>

\* the cache is written and the text returned
SyncStore(th) ==
    /\ requests.threads[th].pc = "storing"
    /\ LET russian_text == requests.threads[th].text
           english_text == requests.threads[th].english_text
       IN
         /\ translator' = [translator EXCEPT
                !.cache = Put(@, cache_key(russian_text, requests.requested),
                              english_text),
                !.last = [text |-> russian_text, result |-> english_text,
                          asked |-> TRUE]]
         /\ requests' = [requests EXCEPT
                !.threads[th] = Returned(russian_text, english_text)]
    /\ UNCHANGED <<user_sessions, bookConv, chapConv, user_data, tasks, store,
                   fin, trace, lastRender, dropped, nFlows, nChars, nFaults,
                   img, batch, illus, sessions>>

\* the caller has taken the value: the thread is free for another request
SyncDone(th) ==
    /\ requests.threads[th].pc = "returned"
    /\ requests' = [requests EXCEPT !.threads[th] = NoRequests.threads[th]]
    /\ UNCHANGED <<user_sessions, bookConv, chapConv, user_data, tasks, store,
                   fin, trace, lastRender, dropped, nFlows, nChars, nFaults,
                   img, batch, illus, sessions, translator>>

\* the strings translated at once: two different ones
ThreadTexts == {Word(1), Padded(1, 1, 0)}

NextThreads ==
    \/ \E th \in Threads, russian_text \in ThreadTexts : SyncBegin(th, russian_text)
    \/ \E th \in Threads, response \in TranslationResponses : SyncAnswer(th, response)
    \/ \E th \in Threads : SyncStore(th)
    \/ \E th \in Threads : SyncDone(th)

SpecThreads == Init /\ [][NextThreads]_vars

(***************************************************************************)
(* utils/image_generator.py: generate_illustration and what it calls.      *)
(* The environment of one call is a record env:                            *)
(*   lookup        whether db.get_characters_with_references finds rows    *)
(*   gemini_refs   the response to the request with reference images       *)
(*   gemini_prompt the response to the prompt-only request                 *)
(*   save_refs, save_prompt  whether _save_temp_image can write the file   *)
(*   dalle         whether the DALL-E request returns a url                *)
(* A response is [status, parts]; a part is "png" (inline data that starts *)
(* with the PNG signature), "bad" (inline data that does not) or "text".   *)
(* characters is [book_id, refs]: whether the dictionaries carry book_id,  *)
(* and per character the row of the book's characters table: "none",       *)
(* "flag" (has_reference without image data), "image" or "broken" (image   *)
(* data that PIL cannot open).  translate_to_english catches its own       *)
(* errors, so the translation is a request that always returns; answer is  *)
(* what the provider gives if the call translates the scene description.   *)
(* Every operator returns [result, calls]: the value returned and the      *)
(* requests made so far, in order.                                         *)
(***************************************************************************)
NoImage == [kind |-> "none", payload |-> "none", source |-> "none"]

Out(result, calls) == [result |-> result, calls |-> calls]

\* _save_temp_image: the path of the file, None if writing fails
save_temp_image(ok, payload, source) ==
    IF ok THEN [kind |-> "path", payload |-> payload, source |-> source] ELSE NoImage

\* every inline payload is taken for an image
HasSignatureAny(part) == part \in {"png", "bad"}

\* part.inline_data with image_data.startswith(b'\x89PNG')
HasSignature(part) == part = "png"

\* the first part of the response that is returned as the image, 0 if none
FirstImage(response) ==
    IF response.status # "ok" \/ ~\E k \in 1..Len(response.parts) : HasSignature(response.parts[k])
    THEN 0
    ELSE CHOOSE k \in 1..Len(response.parts) :
             /\ HasSignature(response.parts[k])
             /\ \A m \in 1..(k - 1) : ~HasSignature(response.parts[m])

\* DALL-E is not asked
DalleSkipped(env, calls) == Out(NoImage, calls)

generate_with_dalle_fallback(env, calls) ==
    Out(IF env.dalle = "url"
        THEN [kind |-> "url", payload |-> "png", source |-> "dalle"]
        ELSE NoImage,
        Append(calls, "dalle"))

generate_with_gemini_imagen(env, calls) ==
    LET asked == Append(calls, "gemini_prompt")
        k == FirstImage(env.gemini_prompt)
    IN  IF k # 0
        THEN Out(save_temp_image(env.save_prompt, env.gemini_prompt.parts[k], "gemini_prompt"),
                 Append(asked, "save"))
        ELSE generate_with_dalle_fallback(env, asked)

generate_illustration_legacy(env, calls) == generate_with_gemini_imagen(env, calls)

\* the characters that have a reference flag / a reference flag and image data
Referenced(refs) == SelectSeq(refs, LAMBDA r : r \in {"flag", "image", "broken"})

WithImage(refs) == SelectSeq(refs, LAMBDA r : r \in {"image", "broken"})

\* nested calls of generate_illustration that are followed
MaxDepth == 3

\* the value of a call that is still calling itself at MaxDepth
StillCalling == [kind |-> "unbounded", payload |-> "none", source |-> "none"]

\* the rows keep the book_id they were selected by
RowsKeepBookId == TRUE

\* whether a dictionary built by get_characters_with_references has a book_id:
\* it has id, name, full_description, has_reference and the reference fields
row_book_id == FALSE

RECURSIVE generate_illustration(_, _, _, _)

\* _generate_scene_fallback calls generate_illustration again, with the
\* dictionaries that generate_scene_with_references was given
generate_scene_fallback(env, refs, calls, depth) ==
    generate_illustration(env, [book_id |-> row_book_id, refs |-> refs], calls,
                          depth + 1)

generate_scene_with_references(env, refs, calls, depth) ==
    LET translated == Append(calls, "translate")
        asked == Append(translated, "gemini_refs")
        k == FirstImage(env.gemini_refs)
    IN  IF WithImage(refs) = << >>
        THEN generate_scene_fallback(env, refs, translated, depth)
        ELSE IF \E c \in 1..Len(refs) : refs[c] = "broken"
        THEN generate_scene_fallback(env, refs, translated, depth)  \* Image.open raises
        ELSE IF k # 0
        THEN Out(save_temp_image(env.save_refs, env.gemini_refs.parts[k], "gemini_refs"),
                 Append(asked, "save"))
        ELSE generate_scene_fallback(env, refs, asked, depth)

\* depth: 1 for the call from outside, one more for each call from
\* _generate_scene_fallback
generate_illustration(env, characters, calls, depth) ==
    IF depth > MaxDepth THEN Out(StillCalling, calls)
    ELSE IF characters.refs # << >> /\ characters.book_id
    THEN LET looked == Append(calls, "lookup")
             characters_with_refs == IF env.lookup THEN characters.refs ELSE << >>
         IN  IF Referenced(characters_with_refs) # << >>
             THEN generate_scene_with_references(env, characters_with_refs, looked,
                                                 depth)
             ELSE generate_illustration_legacy(env, looked)
    ELSE generate_illustration_legacy(env, calls)

Responses ==
    {[status |-> "raises", parts |-> << >>], [status |-> "ok", parts |-> << >>],
     [status |-> "ok", parts |-> <<"png">>], [status |-> "ok", parts |-> <<"bad">>],
     [status |-> "ok", parts |-> <<"text", "png">>],
     [status |-> "ok", parts |-> <<"bad", "png">>]}

RefStates == {"none", "flag", "image", "broken"}

MaxRefs == 2

CharacterLists ==
    {[book_id |-> b, refs |-> r] :
        b \in BOOLEAN, r \in UNION {[1..n -> RefStates] : n \in 0..MaxRefs}}

Environments ==
    [lookup : BOOLEAN, gemini_refs : Responses,
     gemini_prompt : Responses, save_refs : BOOLEAN, save_prompt : BOOLEAN,
     dalle : {"url", "raises"}]

\* one call of generate_illustration, from start to return
\* the scene description of the call
scene_description == Word(1)

IllustrationCall(env, characters, answer) ==
    /\ img.pc = "idle"
    /\ LET r == generate_illustration(env, characters, << >>, 1) IN
         /\ img' = [pc |-> "done", env |-> env, characters |-> characters,
                    calls |-> r.calls, result |-> r.result]
         /\ translator' = IF \E k \in 1..Len(r.calls) : r.calls[k] = "translate"
                          THEN translate_to_english(translator, scene_description, answer)
                          ELSE translator
    /\ UNCHANGED <<bookConv, chapConv, user_data, tasks, store, fin, trace,
                   lastRender, dropped, nFlows, nChars, nFaults, batch, illus, sessions,
                   requests, user_sessions>>

NextImage ==
    /\ img.pc = "idle"
    /\ \E env \in Environments, characters \in CharacterLists,
          answer \in TranslationResponses :
           IllustrationCall(env, characters, answer)

SpecImage == Init /\ [][NextImage]_vars

(***************************************************************************)
(* The specification.                                                      *)
(***************************************************************************)
Next ==
    \/ start_create_book
    \/ \E text \in TitleInputs : handle_book_title(text)
    \/ \E text \in DescriptionInputs : handle_book_description(text)
    \/ \E text \in NameInputs : handle_character_name(text)
    \/ \E text \in CharacterInputs, created \in BOOLEAN, failed_renders \in 0..2 :
           handle_character_description(text, created, failed_renders)
    \/ \E text \in ClarificationInputs, created, delivered \in BOOLEAN :
           handle_character_clarification(text, created, delivered)
    \/ add_more_characters
    \/ \E failAt \in 0..(2 * MaxChars + 1), sent \in BOOLEAN : FinishBegin(failAt, sent)
    \/ \E save \in SaveOutcomes, sent \in BOOLEAN : FinishJoinStep(save, sent)
    \/ \E j \in 1..MaxJobs, outcome \in TaskOutcomes : TaskSettles(j, outcome)
    \/ \E ok \in BOOLEAN : start_command(ok)
    \/ \E ok \in BOOLEAN : cancel_conversation(ok)
    \/ /\ TotalChapters < MaxChapters
       /\ \E b \in 0..MaxFlows, ok \in BOOLEAN : start_create_chapter(b, ok)
    \/ /\ TotalChapters < MaxChapters
       /\ \E b \in 0..MaxFlows, ok \in BOOLEAN : continue_book(b, ok)
    \/ \E ok \in BOOLEAN : ask_for_hint(ok)
    \/ \E outcome \in PipelineOutcomes, b \in SimpleBatches, error_sent \in BOOLEAN :
           auto_generate_chapter(outcome, b, error_sent)
    \/ \E text \in HintInputs, outcome \in PipelineOutcomes, b \in SimpleBatches,
          error_sent \in BOOLEAN :
           handle_chapter_hint(text, outcome, b, error_sent)

Spec == Init /\ [][Next]_vars

(***************************************************************************)
(* Book creation by two users whose updates alternate in any order.        *)
(***************************************************************************)
NextSessions ==
    \/ OtherUser
    \/ start_create_book
    \/ \E text \in TitleInputs : handle_book_title(text)
    \/ \E text \in DescriptionInputs : handle_book_description(text)
    \/ \E text \in NameInputs : handle_character_name(text)
    \/ \E text \in CharacterInputs, created \in BOOLEAN, failed_renders \in 0..2 :
           handle_character_description(text, created, failed_renders)
    \/ \E text \in ClarificationInputs, created, delivered \in BOOLEAN :
           handle_character_clarification(text, created, delivered)
    \/ add_more_characters
    \/ \E failAt \in 0..(2 * MaxChars + 1), sent \in BOOLEAN : FinishBegin(failAt, sent)
    \/ \E save \in SaveOutcomes, sent \in BOOLEAN : FinishJoinStep(save, sent)
    \/ \E j \in 1..MaxJobs, outcome \in TaskOutcomes : TaskSettles(j, outcome)
    \/ \E ok \in BOOLEAN : cancel_conversation(ok)

SpecSessions == Init /\ [][NextSessions]_vars

(***************************************************************************)
(* The title check on its own, over titles of every length around both     *)
(* limits, with and without surrounding white space.                       *)
(***************************************************************************)
\* a title with white space inside
Inner(n) == Word(1) \o Spaces(n) \o Word(1)

AllTitleInputs ==
    {Padded(l, n, t) : l \in {0, 1}, t \in {0, 2}, n \in 0..(MAX_TITLE + 2)}
    \cup {Inner(n) : n \in {1, MAX_TITLE - 2, MAX_TITLE - 1}}

NextTitle ==
    \/ start_create_book
    \/ \E text \in AllTitleInputs : handle_book_title(text)
    \/ \E ok \in BOOLEAN : cancel_conversation(ok)

SpecTitle == Init /\ [][NextTitle]_vars

(***************************************************************************)
(* The join on its own: a session in ADD_MORE_CHARACTERS whose characters  *)
(* were all accepted with a complete description, with n reference tasks   *)
(* launched and still running (n = 0: one character whose launch failed).  *)
(***************************************************************************)
JoinSizes == {0, 1, 5}

DraftCharacter(k) ==
    [name |-> Word(MIN_NAME), uid |-> k, original_description |-> CompleteText,
     full_description |-> CompleteText]

InitJoin ==
    \E n \in JoinSizes :
      LET chars == IF n = 0 THEN 1 ELSE n
          drafts == [book_title |-> Word(MIN_TITLE),
                     book_description |-> Word(MIN_DESCRIPTION),
                     characters |-> [k \in 1..chars |-> DraftCharacter(k)],
                     current_character |-> DraftCharacter(chars)]
      IN  /\ bookConv = "ADD_MORE_CHARACTERS"
          /\ chapConv = END
          /\ user_data =
                 IF n = 0 THEN drafts
                 ELSE Put(drafts, "pending_references",
                          [k \in 1..n |-> [task |-> k, name |-> Word(MIN_NAME),
                                           description |-> CompleteText]])
          /\ tasks = [k \in 1..n |-> NewTask(k)]
          /\ store = [books |-> << >>, characters |-> << >>, chapters |-> << >>]
          /\ fin = Idle
          /\ trace = << >>
          /\ lastRender = "character_buttons"
          /\ dropped = {}
          /\ nFlows = 1
          /\ nChars = chars
          /\ nFaults = IF n = 0 THEN 1 ELSE 0
          /\ img = NoCall
          /\ batch = NoBatch
          /\ illus = NoRun
          /\ translator = NoTranslations
          /\ sessions = OneUser
          /\ requests = NoRequests
          /\ user_sessions = NoSession

NextJoin ==
    \/ \E j \in DOMAIN tasks, outcome \in TaskOutcomes : TaskSettles(j, outcome)
    \/ \E failAt \in 0..(Max(JoinSizes) + 1), sent \in BOOLEAN : FinishBegin(failAt, sent)
    \/ \E save \in SaveOutcomes, sent \in BOOLEAN : FinishJoinStep(save, sent)

SpecJoin == InitJoin /\ [][NextJoin]_vars

\* the task the suspended finish_characters call is waiting for
AwaitedTask == JoinTask(user_data["pending_references"], fin.i)

(***************************************************************************)
(* The join with its scheduling: every running reference task settles at   *)
(* some time, and the event loop resumes finish_characters once the task   *)
(* it awaits is done.                                                      *)
(***************************************************************************)
SpecJoinFair ==
    /\ InitJoin
    /\ [][NextJoin]_vars
    /\ WF_vars(\E j \in DOMAIN tasks, outcome \in TaskOutcomes : TaskSettles(j, outcome))
    /\ WF_vars(\E save \in SaveOutcomes, sent \in BOOLEAN : FinishJoinStep(save, sent))

(***************************************************************************)
(* Chapter generation on its own: a session of a user who has created two  *)
(* books with one character each and has not written a chapter yet.        *)
(***************************************************************************)
MaxBookChapters == 4

InitChapter ==
    /\ bookConv = END
    /\ chapConv = END
    /\ user_data = EmptyDict
    /\ tasks = << >>
    /\ store = [books |-> [k \in 1..2 |-> [title |-> Word(MIN_TITLE),
                                           description |-> Word(MIN_DESCRIPTION)]],
                characters |-> [k \in 1..2 |-> NewCharacter(k, DraftCharacter(k))],
                chapters |-> [k \in 1..2 |-> << >>]]
    /\ fin = Idle
    /\ trace = << >>
    /\ lastRender = "book_created"
    /\ dropped = {}
    /\ nFlows = 2
    /\ nChars = 2
    /\ nFaults = 0
    /\ img = NoCall
    /\ batch = NoBatch
    /\ illus = NoRun
    /\ translator = NoTranslations
    /\ sessions = OneUser
    /\ requests = NoRequests
    /\ user_sessions = NoSession

NextChapter ==
    \/ /\ TotalChapters < MaxBookChapters
       /\ \E b \in 0..2, ok \in BOOLEAN : start_create_chapter(b, ok)
    \/ /\ TotalChapters < MaxBookChapters
       /\ \E b \in 0..2, ok \in BOOLEAN : continue_book(b, ok)
    \/ \E ok \in BOOLEAN : ask_for_hint(ok)
    \/ \E outcome \in PipelineOutcomes, b \in SimpleBatches, error_sent \in BOOLEAN :
           auto_generate_chapter(outcome, b, error_sent)
    \/ \E text \in HintInputs, outcome \in PipelineOutcomes, b \in SimpleBatches,
          error_sent \in BOOLEAN :
           handle_chapter_hint(text, outcome, b, error_sent)
    \/ \E ok \in BOOLEAN : cancel_conversation(ok)

SpecChapter == InitChapter /\ [][NextChapter]_vars

(***************************************************************************)
(* The illustrations of one chapter on their own: the session has chosen   *)
(* a book and the chapter is generated once, with every number of          *)
(* requested illustrations and every outcome of each request and message.  *)
(***************************************************************************)
\* hints of one letter, of one letter between white space, of a sentence
AllHintInputs == {Word(1), Padded(1, 1, 1), Word(SHORT_DESCRIPTION)}

InitBatch ==
    /\ bookConv = END
    /\ chapConv = "CHAPTER_HINT"
    /\ user_data = Put(EmptyDict, "current_book_id", 1)
    /\ tasks = << >>
    /\ store = [books |-> <<[title |-> Word(MIN_TITLE),
                             description |-> Word(MIN_DESCRIPTION)]>>,
                characters |-> <<NewCharacter(1, DraftCharacter(1))>>,
                chapters |-> << << >> >>]
    /\ fin = Idle
    /\ trace = << >>
    /\ lastRender = "chapter_choice"
    /\ dropped = {}
    /\ nFlows = 1
    /\ nChars = 1
    /\ nFaults = 0
    /\ img = NoCall
    /\ batch = NoBatch
    /\ illus = NoRun
    /\ translator = NoTranslations
    /\ sessions = OneUser
    /\ requests = NoRequests
    /\ user_sessions = NoSession

NextBatch ==
    \/ \E ok \in BOOLEAN : ask_for_hint(ok)
    \/ /\ chapConv = "CHAPTER_HINT"
       /\ \E outcome \in PipelineOutcomes, b \in AllBatches, error_sent \in BOOLEAN :
              auto_generate_chapter(outcome, b, error_sent)
    \/ /\ chapConv = "CHAPTER_HINT"
       /\ \E text \in AllHintInputs, outcome \in PipelineOutcomes, b \in AllBatches,
             error_sent \in BOOLEAN :
              handle_chapter_hint(text, outcome, b, error_sent)

SpecBatch == InitBatch /\ [][NextBatch]_vars

(***************************************************************************)
(* The character description on its own: a session that has just accepted  *)
(* a character name, and descriptions made of an appearance keyword (a: 0  *)
(* for none), a personality keyword (q: 0 for none) and n other letters.   *)
(***************************************************************************)
FillLengths == {0, 3, 4, 10, 15}

\* the parts that are not empty, joined by single spaces
Phrase(a, q, n) ==
    LET ka == IF a = 0 THEN << >> ELSE appearance_keywords[a]
        kq == IF q = 0 THEN << >> ELSE personality_keywords[q]
        w == Word(n)
        sep(x, y) == IF x # << >> /\ y # << >> THEN <<" ">> ELSE << >>
    IN  ka \o sep(ka, kq \o w) \o kq \o sep(kq, w) \o w

PhraseInputs ==
    {Phrase(a, q, n) : a \in 0..Len(appearance_keywords),
                       q \in 0..Len(personality_keywords), n \in FillLengths}

InitDescribe ==
    /\ bookConv = "CREATE_CHARACTER_DESCRIPTION"
    /\ chapConv = END
    /\ user_data = [book_title |-> Word(MIN_TITLE),
                    book_description |-> Word(MIN_DESCRIPTION),
                    characters |-> << >>,
                    current_character |-> [name |-> Word(MIN_NAME), uid |-> 1]]
    /\ tasks = << >>
    /\ store = [books |-> << >>, characters |-> << >>, chapters |-> << >>]
    /\ fin = Idle
    /\ trace = << >>
    /\ lastRender = "character_description_prompt"
    /\ dropped = {}
    /\ nFlows = 1
    /\ nChars = 1
    /\ nFaults = 0
    /\ img = NoCall
    /\ batch = NoBatch
    /\ illus = NoRun
    /\ translator = NoTranslations
    /\ sessions = OneUser
    /\ requests = NoRequests
    /\ user_sessions = NoSession

NextDescribe ==
    \/ \E text \in PhraseInputs, created \in BOOLEAN, failed_renders \in 0..2 :
           handle_character_description(text, created, failed_renders)
    \/ \E text \in ClarificationInputs, created, delivered \in BOOLEAN :
           handle_character_clarification(text, created, delivered)

SpecDescribe == InitDescribe /\ [][NextDescribe]_vars

(***************************************************************************)
(* What the claims read off the state.                                     *)
(***************************************************************************)
\* the jobs the finish call has awaited so far, in the order it awaited them
AwaitedJobs == [k \in 1..Len(SelectSeq(trace, LAMBDA r : r.e = "await")) |->
                    SelectSeq(trace, LAMBDA r : r.e = "await")[k].n]

\* the finish call has rendered the final summary
SummaryRendered == trace # << >> /\ trace[Len(trace)].e = "summary"

\* the persisted characters that hold the result of job j
Holders(j) == {k \in 1..Len(store.characters) : store.characters[k].ref = j}

\* the persisted characters of book b
CharactersOf(b) == {k \in 1..Len(store.characters) : store.characters[k].book = b}

(***************************************************************************)
(* C1: in a finish from ADD_MORE_CHARACTERS the book and every draft       *)
(* character are in the store before the first job is awaited, every job   *)
(* of the pending list is awaited before the summary, and the summary is   *)
(* never rendered while a job of the pending list is still running.        *)
(***************************************************************************)
FinishOrder ==
    /\ trace # << >> =>
         /\ trace[1].e = "commit"
         /\ trace[1].book <= Len(store.books)
         /\ Cardinality(CharactersOf(trace[1].book)) = trace[1].n
         /\ \A k \in 2..Len(trace) :
              /\ trace[k].e \in {"await", "summary"}
              /\ trace[k].e = "summary" => k = Len(trace)
         /\ SummaryRendered =>
              /\ AwaitedJobs = trace[1].jobs
              /\ \A k \in 1..Len(trace[1].jobs) :
                    tasks[trace[1].jobs[k]].status # "running"
    /\ lastRender = "book_created" => SummaryRendered

\* a summary rendered after a join over at least one job
FinishOrderWitness ==
    /\ lastRender = "book_created"
    /\ SummaryRendered
    /\ Len(trace[1].jobs) >= 1
    /\ trace[1].n >= 1

(***************************************************************************)
(* C2: whenever finish_characters has returned (the summary or the error   *)
(* message is the last message rendered), pending_references is empty.     *)
(***************************************************************************)
FlowEndsDrained ==
    lastRender \in {"book_created", "finish_error"} => PendingJobs = << >>

(***************************************************************************)
(* C3: the join over n pending jobs awaits the jobs of the pending list    *)
(* one by one in launch order, each only once it has settled, and leaves   *)
(* the loop after exactly n outcomes, whatever the outcomes are.           *)
(***************************************************************************)
JoinProcessesAll ==
    trace # << >> =>
      LET jobs == trace[1].jobs IN
        /\ jobs = [k \in 1..Len(tasks) |-> k]
        /\ Len(AwaitedJobs) <= Len(jobs)
        /\ AwaitedJobs = SubSeq(jobs, 1, Len(AwaitedJobs))
        /\ \A k \in 1..Len(AwaitedJobs) : tasks[AwaitedJobs[k]].status # "running"
        /\ fin.pc = "join" => Len(AwaitedJobs) = fin.i - 1
        /\ fin.pc = "idle" => AwaitedJobs = jobs

\* a join over five jobs that is over, with successes and failures among them
JoinProcessesAllWitness ==
    /\ fin.pc = "idle"
    /\ trace # << >>
    /\ Len(trace[1].jobs) = 5
    /\ Len(AwaitedJobs) = 5
    /\ \E k \in 2..Len(trace) : trace[k].e = "await" /\ trace[k].outcome = "saved"
    /\ \E k \in 2..Len(trace) : trace[k].e = "await" /\ trace[k].outcome = "task_error"
    /\ \E k \in 2..Len(trace) : trace[k].e = "await" /\ trace[k].outcome = "no_data"

(***************************************************************************)
(* C4: in a join, a job that failed does not keep the others from being    *)
(* awaited and saved: every awaited job whose task returned data is saved, *)
(* unless its own save fails, and the count in the summary is the number   *)
(* of jobs saved.                                                          *)
(***************************************************************************)
JoinSavesEverySuccess ==
    /\ \A k \in 1..Len(trace) :
         (trace[k].e = "await" /\ tasks[trace[k].n].status = "data")
            => trace[k].outcome \in {"saved", "not_saved", "save_error"}
    /\ SummaryRendered =>
         trace[Len(trace)].n =
             Cardinality({k \in 1..Len(trace) :
                            trace[k].e = "await" /\ trace[k].outcome = "saved"})

(***************************************************************************)
(* C5: the turn that completes a character (from                           *)
(* CREATE_CHARACTER_DESCRIPTION or CREATE_CHARACTER_CLARIFICATION into     *)
(* ADD_MORE_CHARACTERS) appends the character, renders the add-more /      *)
(* finish choice in that same turn and awaits no job: the jobs it launched *)
(* are still running when it ends, and no other job is touched.            *)
(***************************************************************************)
MenuWithoutWaiting ==
    [][(/\ bookConv \in {"CREATE_CHARACTER_DESCRIPTION",
                         "CREATE_CHARACTER_CLARIFICATION"}
        /\ bookConv' = "ADD_MORE_CHARACTERS")
       => /\ lastRender' = "character_buttons"
          /\ Len(user_data'["characters"]) > Len(user_data["characters"])
          /\ Len(tasks') >= Len(tasks)
          /\ \A j \in 1..Len(tasks) : tasks'[j] = tasks[j]
          /\ \A j \in (Len(tasks) + 1)..Len(tasks') :
                /\ tasks'[j].status = "running"
                /\ tasks'[j].awaits = 0
                /\ j \in TrackedTasks(user_data')]_vars

\* the choice is on screen while the job of the character just completed runs
MenuWithoutWaitingWitness ==
    /\ bookConv = "ADD_MORE_CHARACTERS"
    /\ lastRender = "character_buttons"
    /\ PendingJobs # << >>
    /\ LET job == PendingJobs[Len(PendingJobs)].task IN
         /\ tasks[job].status = "running"
         /\ tasks[job].for = user_data["current_character"]["uid"]
    /\ Has(user_data["current_character"], "needs_clarification")

(***************************************************************************)
(* C6: a launch that fails does not fail its turn (the turn ends in the    *)
(* state and with the message of a turn whose launch worked); a job that   *)
(* settles, also with a failure, changes nothing the session sees; and     *)
(* when the join awaits a job that raised, the join records a failed       *)
(* entry for it, saves nothing and goes on.                                *)
(***************************************************************************)
JobFailureStaysSilent ==
    [][/\ (\E j \in 1..Len(tasks) :
              j <= Len(tasks') /\ tasks'[j].status # tasks[j].status)
          => UNCHANGED <<bookConv, chapConv, user_data, store, fin, trace, lastRender>>
       /\ \A text \in CharacterInputs, failed_renders \in 0..2 :
            handle_character_description(text, FALSE, failed_renders)
              => /\ bookConv' = DescriptionTurn(user_data, tasks, strip(text), TRUE,
                                                failed_renders)[3]
                 /\ lastRender' = DescriptionTurn(user_data, tasks, strip(text), TRUE,
                                                  failed_renders)[4]
                 /\ tasks' = tasks
       /\ \A text \in ClarificationInputs :
            handle_character_clarification(text, FALSE, TRUE)
              => /\ tasks' = tasks
                 /\ Has(user_data, "characters")
                      => bookConv' = "ADD_MORE_CHARACTERS" /\ lastRender' = "character_buttons"
       /\ (/\ fin.pc = "join"
           /\ tasks'[JoinTask(PendingJobs, fin.i)].awaits
                 > tasks[JoinTask(PendingJobs, fin.i)].awaits
           /\ tasks[JoinTask(PendingJobs, fin.i)].status = "raised")
          => /\ trace' # << >>
             /\ Len(trace') > Len(trace)
             /\ trace'[Len(trace) + 1] =
                  [e |-> "await", n |-> JoinTask(PendingJobs, fin.i), outcome |-> "task_error"]
             /\ store' = store
             /\ fin.i < Len(PendingJobs) => fin'.pc = "join" /\ fin'.i = fin.i + 1
             /\ fin.i = Len(PendingJobs) => bookConv' = END]_vars

\* a job raised while the session was elsewhere, and the join has met it
JobFailureStaysSilentWitness ==
    /\ \E k \in 1..Len(trace) :
          /\ trace[k].e = "await"
          /\ trace[k].outcome = "task_error"
          /\ k < Len(trace)
    /\ SummaryRendered
    /\ nFaults = 1
    /\ Len(tasks) = 1

(***************************************************************************)
(* C7: a /cancel that is accepted in a state of a flow leaves user_data    *)
(* empty (no draft, no current character, no book id, no pending job),     *)
(* both conversations ended, and awaits no job.                            *)
(***************************************************************************)
CancelReturnsToMainMenu ==
    [][cancel_conversation(TRUE)
       => /\ DOMAIN user_data' = {}
          /\ tasks' = tasks
          /\ bookConv' = END
          /\ chapConv' = END]_vars

(***************************************************************************)
(* C8: once a cancel has dropped a job, no later turn awaits the job or    *)
(* saves its result to a persisted character (so no summary counts it).    *)
(***************************************************************************)
DroppedNeverConsumed ==
    [][\A j \in dropped :
          /\ tasks'[j].awaits = tasks[j].awaits
          /\ Holders(j)' = Holders(j)
          /\ j \notin TrackedTasks(user_data')]_vars

\* after the cancel a later flow has gone through its join and summary, and
\* the dropped job has produced its image
DroppedNeverConsumedWitness ==
    /\ \E j \in dropped :
          /\ tasks[j].status = "data"
          /\ tasks[j].awaits = 0
          /\ Holders(j) = {}
    /\ SummaryRendered
    /\ \E k \in 1..Len(trace) : trace[k].e = "await" /\ trace[k].outcome = "saved"

(***************************************************************************)
(* C9: over all flows of the session, a job is awaited at most once and    *)
(* its result is saved to at most one persisted character.                 *)
(***************************************************************************)
ConsumedAtMostOnce ==
    \A j \in 1..Len(tasks) :
       /\ tasks[j].awaits <= 1
       /\ Cardinality(Holders(j)) <= 1

(***************************************************************************)
(* C10: in CREATE_BOOK_TITLE an input whose stripped length is below 3 or  *)
(* above 100 leaves the state and user_data as they are; an input whose    *)
(* stripped length is within 3..100 stores the stripped title and moves to *)
(* CREATE_BOOK_DESCRIPTION.                                                *)
(***************************************************************************)
TitleDecision ==
    [][\A text \in AllTitleInputs :
          handle_book_title(text)
            => IF Len(strip(text)) < 3 \/ Len(strip(text)) > 100
               THEN /\ bookConv' = "CREATE_BOOK_TITLE"
                    /\ user_data' = user_data
               ELSE /\ bookConv' = "CREATE_BOOK_DESCRIPTION"
                    /\ Has(user_data', "book_title")
                    /\ user_data'["book_title"] = strip(text)
                    /\ \A key \in DOMAIN user_data :
                          key # "book_title" => user_data'[key] = user_data[key]]_vars

\* a title of exactly 100 characters, sent with white space around it, is stored
TitleDecisionWitness ==
    /\ bookConv = "CREATE_BOOK_DESCRIPTION"
    /\ Has(user_data, "book_title")
    /\ Len(user_data["book_title"]) = 100
    /\ lastRender = "description_prompt"

(***************************************************************************)
(* C11: a book description, character name, character description or       *)
(* clarification answer whose length without the surrounding white space   *)
(* is below its threshold (10, 2, 10, 5) is answered with the rejection     *)
(* message in the same state: user_data (drafts and pending jobs) and the  *)
(* tasks are unchanged, nothing fails and no job is launched.              *)
(***************************************************************************)
ShortInputRejected ==
    [][/\ bookConv = "CREATE_BOOK_DESCRIPTION" =>
            \A p \in {0, 1}, n \in {MIN_DESCRIPTION - 1} :
               handle_book_description(Padded(p, n, p))
                 => /\ n < 10
                    /\ lastRender' = "description_too_short"
                    /\ UNCHANGED <<bookConv, chapConv, user_data, tasks, store, nFaults>>
       /\ bookConv = "CREATE_CHARACTER_NAME" =>
            \A p \in {0, 1}, n \in {MIN_NAME - 1} :
               handle_character_name(Padded(p, n, p))
                 => /\ n < 2
                    /\ lastRender' = "name_too_short"
                    /\ UNCHANGED <<bookConv, chapConv, user_data, tasks, store, nFaults>>
       /\ bookConv = "CREATE_CHARACTER_DESCRIPTION" =>
            \A p \in {0, 1}, n \in {MIN_DESCRIPTION - 1},
               created \in BOOLEAN, failed_renders \in 0..2 :
               handle_character_description(Padded(p, n, p), created, failed_renders)
                 => /\ n < 10
                    /\ lastRender' = "description_too_short"
                    /\ UNCHANGED <<bookConv, chapConv, user_data, tasks, store, nFaults>>
       /\ bookConv = "CREATE_CHARACTER_CLARIFICATION" =>
            \A p \in {0, 1}, n \in {MIN_CLARIFICATION - 1},
               created \in BOOLEAN, delivered \in BOOLEAN :
               handle_character_clarification(Padded(p, n, p), created, delivered)
                 => /\ n < 5
                    /\ lastRender' = "clarification_too_short"
                    /\ UNCHANGED <<bookConv, chapConv, user_data, tasks, store, nFaults>>]_vars

\* a clarification answer was rejected while a job of an earlier character is
\* pending and the drafts are in place
ShortInputRejectedWitness ==
    /\ lastRender = "clarification_too_short"
    /\ bookConv = "CREATE_CHARACTER_CLARIFICATION"
    /\ PendingJobs # << >>
    /\ Has(user_data, "characters")
    /\ Len(user_data["characters"]) = 1

(***************************************************************************)
(* C12: a character description of at least 10 characters that contains an *)
(* appearance keyword and a personality keyword is found complete (no      *)
(* missing field, no question), and its turn moves from                    *)
(* CREATE_CHARACTER_DESCRIPTION to ADD_MORE_CHARACTERS.                    *)
(***************************************************************************)
BothKeywordsComplete ==
    [][bookConv = "CREATE_CHARACTER_DESCRIPTION" =>
         \A a \in 1..Len(appearance_keywords), q \in 1..Len(personality_keywords),
            n \in FillLengths :
            (Len(Phrase(a, q, n)) >= 10
             /\ handle_character_description(Phrase(a, q, n), TRUE, 0))
              => /\ analyze_character_description(Phrase(a, q, n)).missing_fields = << >>
                 /\ analyze_character_description(Phrase(a, q, n)).clarification_question
                       = << >>
                 /\ bookConv' = "ADD_MORE_CHARACTERS"]_vars

(***************************************************************************)
(* C13: the turn of an accepted character description moves to             *)
(* CREATE_CHARACTER_CLARIFICATION exactly if an appearance keyword or a    *)
(* personality keyword is absent, and the question then asks about         *)
(* appearance exactly if no appearance keyword is present and about        *)
(* personality exactly if no personality keyword is present.               *)
(***************************************************************************)
ClarificationIffMissing ==
    [][bookConv = "CREATE_CHARACTER_DESCRIPTION" =>
         \A a \in 0..Len(appearance_keywords), q \in 0..Len(personality_keywords),
            n \in FillLengths :
            (Len(Phrase(a, q, n)) >= 10
             /\ handle_character_description(Phrase(a, q, n), TRUE, 0))
              => /\ bookConv' = "CREATE_CHARACTER_CLARIFICATION" <=> (a = 0 \/ q = 0)
                 /\ bookConv' = "CREATE_CHARACTER_CLARIFICATION" =>
                      lastRender' =
                          IF a = 0 /\ q = 0 THEN "ask_appearance_and_personality"
                          ELSE IF a = 0 THEN "ask_appearance"
                          ELSE "ask_personality"]_vars

(***************************************************************************)
(* C14: for a description with neither an appearance keyword nor a         *)
(* personality keyword the question of the completeness check names both   *)
(* topics, and so does the reply of the turn that accepts the description. *)
(***************************************************************************)
NeitherKeywordAsksBoth ==
    [][\A n \in FillLengths :
          /\ analyze_character_description(Phrase(0, 0, n)).clarification_question
                = <<"appearance", "personality">>
          /\ handle_character_description(Phrase(0, 0, n), TRUE, 0)
                /\ Len(Phrase(0, 0, n)) >= 10
               => /\ bookConv' = "CREATE_CHARACTER_CLARIFICATION"
                  /\ lastRender' = "ask_appearance_and_personality"]_vars

\* a description of 15 letters without any keyword has been asked about both
NeitherKeywordAsksBothWitness ==
    /\ bookConv = "CREATE_CHARACTER_CLARIFICATION"
    /\ lastRender = "ask_appearance_and_personality"
    /\ user_data["current_character"]["original_description"] = Word(15)

(***************************************************************************)
(* Helpers for the claims about the image providers.                       *)
(***************************************************************************)
\* the positions of a request in the log of a call
Asked(calls, request) == {k \in 1..Len(calls) : calls[k] = request}

\* the response carries no inline data with the PNG signature
NoValidImage(response) ==
    response.status = "raises" \/ \A k \in 1..Len(response.parts) : response.parts[k] # "png"

\* the response carries inline data, none of it with the PNG signature
OnlyBadPayload(response) ==
    /\ response.status = "ok"
    /\ \E k \in 1..Len(response.parts) : response.parts[k] = "bad"
    /\ \A k \in 1..Len(response.parts) : response.parts[k] # "png"

DalleOutput == [kind |-> "url", payload |-> "png", source |-> "dalle"]

BadPayloadRejected ==
    img.pc = "done" =>
        LET calls == img.calls IN
        /\ img.result.payload # "bad"
        /\ \A k \in Asked(calls, "gemini_prompt") :
               OnlyBadPayload(img.env.gemini_prompt) =>
                   k < Len(calls) /\ calls[k + 1] = "dalle"
        /\ \A k \in Asked(calls, "gemini_refs") :
               OnlyBadPayload(img.env.gemini_refs) =>
                   k < Len(calls) /\ calls[k + 1] = "gemini_prompt"

BadPayloadRejectedWitness ==
    /\ img.pc = "done"
    /\ img.env.gemini_refs.parts = <<"bad">>
    /\ img.env.gemini_prompt.parts = <<"bad">>
    /\ img.calls = <<"lookup", "translate", "gemini_refs", "gemini_prompt", "dalle">>
    /\ img.result = DalleOutput

(***************************************************************************)
(* C17: the request with reference images is made only when a character    *)
(* of the book has a stored reference.  Without one, and whenever the      *)
(* request with references does not produce an illustration, the           *)
(* prompt-only generation is attempted, so that the call returns no        *)
(* illustration only when the prompt-only chain cannot produce one.        *)
(***************************************************************************)
ReferenceFailureFallsBack ==
    img.pc = "done" =>
        LET calls == img.calls
            refs == Asked(calls, "gemini_refs")
            legacy == generate_illustration_legacy(img.env, << >>)
        IN  /\ refs # {} =>
                \E c \in 1..Len(img.characters.refs) : img.characters.refs[c] # "none"
            /\ refs = {} => Asked(calls, "gemini_prompt") # {}
            /\ (refs # {} /\ img.result.source # "gemini_refs") =>
                   Asked(calls, "gemini_prompt") # {}
            /\ img.result = NoImage => legacy.result = NoImage

(***************************************************************************)
(* C18: chapter numbering per book is monotonic and gapless.  A step never *)
(* removes or renumbers a chapter; it adds at most one chapter to a book,  *)
(* numbered (count of the book's chapters before the step) + 1; so the     *)
(* numbers of a book are exactly 1..n: an empty book gets 1, a book with   *)
(* chapters 1, 2, 3 gets 4.                                                *)
(***************************************************************************)
ChapterNumbering ==
    [][\A b \in 1..Len(store.chapters) :
          LET old == store.chapters[b]
              new == store'.chapters[b]
          IN  /\ Len(new) \in {Len(old), Len(old) + 1}
              /\ \A k \in 1..Len(old) : new[k].chapter_number = old[k].chapter_number
              /\ Len(new) = Len(old) + 1 => new[Len(new)].chapter_number = Len(old) + 1
              /\ \A k \in 1..Len(new) : new[k].chapter_number = k]_vars

ChapterNumberingWitness ==
    /\ Len(store.chapters[1]) = 4
    /\ \A k \in 1..4 : store.chapters[1][k].chapter_number = k
    /\ batch.pc = "done" /\ batch.book = 1 /\ batch.chapter = 4
    /\ lastRender = "chapter_ready"

(***************************************************************************)
(* Helpers for the claims about the illustrations of a chapter.            *)
(***************************************************************************)
\* the prompts of the last run whose image was produced and delivered
Successes ==
    IF batch.input.before_ok
    THEN {i \in 1..Len(batch.input.outcomes) : batch.input.outcomes[i] = "image"}
    ELSE {}

\* the illustration of the chapter the last run belongs to
RecordedIllustration == store.chapters[batch.book][batch.chapter].illustration_url

(***************************************************************************)
(* C19: a run is closed with the message of a failed batch only if no      *)
(* illustration was produced and delivered, and a run without any          *)
(* delivered illustration is always closed with a failure message when a   *)
(* message can be delivered.  A run with a delivered illustration and      *)
(* more than one requested is closed with "created k of n", k being the    *)
(* number delivered; with one requested the success is not announced.      *)
(* The message of the outer except appears only when a call outside the    *)
(* handling of the single images raised.                                   *)
(***************************************************************************)
BatchReport ==
    batch.pc = "done" =>
        LET b == batch.input
            k == Cardinality(Successes)
        IN  /\ batch.successful_illustrations = k
            /\ batch.report = "illustrations_failed" => k = 0
            /\ (k = 0 /\ b.before_ok /\ b.report_ok) => batch.report = "illustrations_failed"
            /\ (k = 0 /\ b.error_ok) =>
                   batch.report \in {"illustrations_failed", "illustrations_error"}
            /\ (k > 0 /\ b.n > 1 /\ b.report_ok) => batch.report = "created_k_of_n"
            /\ (k > 0 /\ b.n = 1) => batch.report = "none"
            /\ batch.report = "illustrations_error" => ~b.before_ok \/ ~b.report_ok

BatchReportWitness ==
    /\ batch.pc = "done"
    /\ batch.input.n = 3
    /\ batch.input.before_ok /\ batch.input.report_ok
    /\ batch.input.outcomes = <<"image", "none", "image">>
    /\ batch.successful_illustrations = 2
    /\ batch.report = "created_k_of_n"

(***************************************************************************)
(* C20: after a run with at least one delivered image the chapter record   *)
(* holds the reference of the first of them; after a run without one the   *)
(* record's illustration is what it was before (none).                     *)
(***************************************************************************)
FirstSuccessOnRecord ==
    batch.pc = "done" =>
        /\ Successes # {} =>
               /\ RecordedIllustration \in Successes
               /\ \A i \in Successes : RecordedIllustration <= i
        /\ Successes = {} => RecordedIllustration = 0

(***************************************************************************)
(* C21: in generate_and_send_illustrations every task is created before    *)
(* the call waits for any of them: while the tasks are being created none  *)
(* has run, and when the call is suspended in gather all of them are in    *)
(* flight together.  No result is processed before every task has          *)
(* settled.  A task that raises does not end the run: every result is      *)
(* processed, and for every task that returned an image the delivery is    *)
(* attempted.                                                              *)
(***************************************************************************)
GatherAllTasks ==
    illus.pc # "idle" =>
        LET settled == {k \in 1..Len(illus.tasks) : illus.tasks[k] # "running"}
        IN  /\ illus.pc = "create" => settled = {}
            /\ illus.pc \in {"gather", "process"} => Len(illus.tasks) = illus.prompts
            /\ (illus.pc = "process" \/ illus.handled # << >>) =>
                   settled = 1..Len(illus.tasks)
            /\ illus.pc = "done" =>
                   /\ Len(illus.handled) = Len(illus.tasks)
                   /\ \A k \in 1..Len(illus.tasks) :
                          illus.tasks[k] = "image" =>
                              illus.handled[k] \in {"delivered", "unsent"}

GatherAllTasksWitness ==
    /\ illus.pc = "done"
    /\ illus.n = 3
    /\ illus.tasks = <<"image", "raises", "image">>
    /\ illus.handled = <<"delivered", "skipped", "delivered">>
    /\ illus.successful_illustrations = 2

(***************************************************************************)
(* C22: a turn of auto_generate_chapter or of handle_chapter_hint (with a  *)
(* hint of any length) in which generate_chapter has run and returned      *)
(* ends create_chapter_conv (ConversationHandler.END) in that same turn:   *)
(* with the chapter made and all, some or none of its illustrations        *)
(* delivered, and with the chapter generation failed.  (b is the           *)
(* illustration run the turn made; a turn that made none does not depend   *)
(* on it.)                                                                 *)
(***************************************************************************)
ChapterTurnEnds ==
    [][chapConv = "CHAPTER_HINT" =>
         \A outcome \in PipelineOutcomes \ {"progress"},
            b \in IF batch'.pc = "done" THEN {batch'.input} ELSE SimpleBatches :
            (\/ auto_generate_chapter(outcome, b, TRUE)
             \/ \E text \in AllHintInputs : handle_chapter_hint(text, outcome, b, TRUE))
              => /\ chapConv' = END
                 /\ lastRender' \in {"chapter_ready", "chapter_error"}
                 /\ lastRender' = "chapter_ready" <=> outcome = "ok"]_vars

\* a hint of one letter, the chapter generation failed: no chapter, flow ended
ChapterTurnEndsWitness ==
    /\ chapConv = END
    /\ lastRender = "chapter_error"
    /\ Has(user_data, "chapter_hint") /\ user_data["chapter_hint"] = Word(1)
    /\ store.chapters[1] = << >>
    /\ nFaults = 1

(***************************************************************************)
(* C23: a turn of continue_book, start_create_chapter, ask_for_hint,       *)
(* finish_characters or generate_chapter in which a store call fails or    *)
(* the book is not found ends with the flow of that handler at END         *)
(* (MainMenu).  (handle_character_description makes no store call.)        *)
(***************************************************************************)
StoreErrorEndsFlow ==
    [][/\ chapConv = END =>
            \A b \in 0..MaxFlows, ok \in BOOLEAN :
               ((~ok \/ b = 0) /\ (start_create_chapter(b, ok) \/ continue_book(b, ok)))
                 => chapConv' = END
       /\ chapConv = "CHAPTER_HINT" =>
            /\ ask_for_hint(FALSE) => chapConv' = END
            /\ \A b \in SimpleBatches :
                  (\/ auto_generate_chapter("before", b, TRUE)
                   \/ \E text \in HintInputs : handle_chapter_hint(text, "before", b, TRUE))
                    => chapConv' = END
       /\ bookConv = "ADD_MORE_CHARACTERS" =>
            \A failAt \in 0..MaxChars :
               (FinishBegin(failAt, TRUE) /\ nFaults' > nFaults) => bookConv' = END]_vars

(***************************************************************************)
(* C24: the reference status of a character only moves forward.  A task    *)
(* that was launched stays tracked as a task and, once it has settled      *)
(* (image data, nothing, or an error), keeps that result; stored           *)
(* characters are never removed; the reference of a stored character       *)
(* changes only while finish_characters processes the pending entry at     *)
(* that character's position, and only from "no reference" to the result   *)
(* of that entry: a reference that was stored is never replaced or         *)
(* removed, and a character whose entry was processed without a reference  *)
(* being stored never gets one later.                                      *)
(***************************************************************************)
ReferenceForwardOnly ==
    [][/\ Len(tasks') >= Len(tasks)
       /\ \A j \in 1..Len(tasks) :
             /\ tasks'[j].for = tasks[j].for
             /\ tasks[j].status # "running" => tasks'[j].status = tasks[j].status
       /\ Len(store'.characters) >= Len(store.characters)
       /\ \A k \in 1..Len(store.characters) :
             store'.characters[k].ref # store.characters[k].ref
               => /\ store.characters[k].ref = 0
                  /\ fin.pc = "join"
                  /\ fin.i <= Len(fin.created)
                  /\ k = fin.created[fin.i]
                  /\ store'.characters[k].ref = AwaitedTask]_vars

\* two characters of one book have both received their reference, the second
\* after the first
ReferenceForwardOnlyWitness ==
    /\ fin.pc = "idle"
    /\ bookConv = END
    /\ Len(store.characters) = 2
    /\ store.characters[1].ref = 1
    /\ store.characters[2].ref = 2
    /\ store.characters[1].book = store.characters[2].book

(***************************************************************************)
(* C25: at any time at most one of the two conversations of a session is   *)
(* in a state: the book-creation flow and the chapter-creation flow are    *)
(* never both outside ConversationHandler.END.                             *)
(***************************************************************************)
OneActiveState == bookConv = END \/ chapConv = END

(***************************************************************************)
(* C26: the join of finish_characters has no timeout.  If every running    *)
(* reference task settles at some time, a finish that has entered the join *)
(* ends with the book flow in ConversationHandler.END and the call         *)
(* returned.  While the task the call is waiting for has not settled, the  *)
(* call stays where it is: it does not move to the next pending entry and  *)
(* the flow does not end, whatever else happens; and the flow ends through *)
(* the join only when every pending task has settled.                      *)
(***************************************************************************)
JoinWithoutTimeout ==
    /\ (fin.pc = "join") ~> (fin.pc = "idle" /\ bookConv = END)
    /\ [][fin.pc = "join" =>
             /\ tasks[AwaitedTask].status = "running"
                  => fin' = fin /\ bookConv' = bookConv /\ store' = store
             /\ fin'.pc = "idle"
                  => \A k \in 1..Len(user_data["pending_references"]) :
                        tasks[JoinTask(user_data["pending_references"], k)].status
                          # "running"]_vars

\* the call is suspended at the third of five pending entries, whose task is
\* still running while the tasks of the later entries have settled
JoinWithoutTimeoutWitness ==
    /\ fin.pc = "join"
    /\ fin.i = 3
    /\ Len(user_data["pending_references"]) = 5
    /\ tasks[AwaitedTask].status = "running"
    /\ tasks[4].status = "data"
    /\ tasks[5].status = "raised"
    /\ bookConv = "ADD_MORE_CHARACTERS"

OwnJobs(ud, u) ==
    \A k \in 1..Len(PendingOf(ud)) : LaunchedBy[PendingOf(ud)[k].task] = u

(***************************************************************************)
(* C28: the drafts and the pending list belong to one user.  Whatever is   *)
(* done in a turn of one user (a message, a job launch, a finish, a        *)
(* cancel) or by a settling task, the conversation states and the          *)
(* user_data of the other user stay as they are, and each user finds them  *)
(* unchanged at the next own update.  The pending list of a user holds     *)
(* only tasks created in that user's turns, and a task is awaited only in  *)
(* a finish_characters call of the user in whose turn it was created.      *)
(***************************************************************************)
SessionsIsolated ==
    /\ [](/\ OwnJobs(user_data, sessions.current)
          /\ OwnJobs(sessions.parked.user_data, 3 - sessions.current))
    /\ [][/\ sessions'.current = sessions.current => sessions'.parked = sessions.parked
          /\ sessions'.current # sessions.current =>
                /\ sessions'.parked = [bookConv |-> bookConv, chapConv |-> chapConv,
                                       user_data |-> user_data]
                /\ bookConv' = sessions.parked.bookConv
                /\ chapConv' = sessions.parked.chapConv
                /\ user_data' = sessions.parked.user_data
                /\ tasks' = tasks
          /\ \A j \in 1..Len(tasks) :
                tasks'[j].awaits > tasks[j].awaits => LaunchedBy[j] = sessions.current]_vars

\* the second user has finished a book and its task was awaited there, while
\* the first user is still in the character menu with a task of their own
\* that nobody has awaited
SessionsIsolatedWitness ==
    /\ sessions.current = 2
    /\ bookConv = END
    /\ Ready
    /\ Len(tasks) = 2
    /\ LaunchedBy = <<1, 2>>
    /\ tasks[2].awaits = 1
    /\ tasks[1].awaits = 0
    /\ sessions.parked.bookConv = "ADD_MORE_CHARACTERS"
    /\ JobsOf(PendingOf(sessions.parked.user_data)) = <<1>>
    /\ Len(store.books) = 1

(***************************************************************************)
(* C29: a stored character that has a reference has the reference of the   *)
(* task that was launched for that character (for its name and             *)
(* description).                                                           *)
(***************************************************************************)
ReferenceOfOwnJob ==
    \A k \in 1..Len(store.characters) :
       store.characters[k].ref # 0
         => tasks[store.characters[k].ref].for = store.characters[k].uid

\* the draft characters of the session
Drafts == IF Has(user_data, "characters") THEN user_data["characters"] ELSE << >>

(***************************************************************************)
(* C30: a character is appended to the drafts once and gets one reference  *)
(* task: no two entries of user_data['characters'] are the same character  *)
(* (the character of one accepted name), and no two tasks were launched    *)
(* for the same character.                                                 *)
(***************************************************************************)
OneEntryOneJob ==
    /\ \A i, j \in 1..Len(Drafts) : Drafts[i]["uid"] = Drafts[j]["uid"] => i = j
    /\ \A i, j \in 1..Len(tasks) : tasks[i].for = tasks[j].for => i = j

(***************************************************************************)
(* C31: a book-creation flow starts its character stage with no draft      *)
(* character and no pending reference task: when handle_book_description   *)
(* accepts the description and asks for the first name, the drafts and     *)
(* the pending list of the session are both empty, however the session's   *)
(* earlier flow ended.                                                     *)
(***************************************************************************)
FlowStartsEmpty ==
    [][(bookConv = "CREATE_BOOK_DESCRIPTION" /\ bookConv' = "CREATE_CHARACTER_NAME")
         => (Drafts' = << >> /\ PendingOf(user_data') = << >>)]_vars

\* the requests whose image was generated and delivered, in request order
DeliveredRequests(run) ==
    SelectSeq([k \in 1..Len(run.tasks) |-> k],
              LAMBDA k : run.tasks[k] = "image" /\ run.handled[k] = "delivered")

(***************************************************************************)
(* C32: what an illustration run delivers and persists depends on the      *)
(* outcome of each request, not on the order in which the concurrent       *)
(* tasks complete.  When all results are processed, the images delivered   *)
(* are those of the requests that produced an image and whose send_photo   *)
(* worked, in the order of the requests; the image on the chapter record   *)
(* is that of the first request or none, and it is that of the first       *)
(* request only if that request's image was delivered.  None of this       *)
(* mentions the completion order.                                          *)
(***************************************************************************)
ByRequestIndex ==
    (illus.pc \in {"process", "done"} /\ illus.i > Len(illus.tasks)) =>
        /\ illus.sent_photos = DeliveredRequests(illus)
        /\ illus.illustration_url \in {0, 1}
        /\ illus.illustration_url = 1 =>
               illus.tasks[1] = "image" /\ illus.handled[1] = "delivered"
        /\ \A p \in 1..Len(illus.handled) :
               illus.handled[p] = "skipped" <=> illus.tasks[p] = "raises"

\* the tasks completed in the reverse of the request order; the images of the
\* first and the third request were delivered in request order and the first
\* is on the chapter record
ByRequestIndexWitness ==
    /\ illus.pc = "done"
    /\ illus.order = <<3, 2, 1>>
    /\ illus.tasks = <<"image", "none", "image">>
    /\ illus.sent_photos = <<1, 3>>
    /\ illus.illustration_url = 1

(***************************************************************************)
(* C33: a call of generate_illustration returns after a bounded number of  *)
(* requests.  It never is still calling itself at the depth followed; the  *)
(* characters are looked up at most once and the reference-aware path is   *)
(* entered at most once, also when that path falls back into               *)
(* generate_illustration; each provider is asked at most once and the      *)
(* call makes at most six requests in all.                                 *)
(***************************************************************************)
BoundedProviderCalls ==
    img.pc = "done" =>
        /\ img.result.kind # "unbounded"
        /\ \A request \in {"lookup", "translate", "gemini_refs", "gemini_prompt",
                            "dalle", "save"} :
               Cardinality(Asked(img.calls, request)) <= 1
        /\ Len(img.calls) <= 6

\* the reference-aware request returned no image, the call fell back through
\* generate_illustration to the prompt-only request and then to DALL-E
BoundedProviderCallsWitness ==
    /\ img.pc = "done"
    /\ img.characters.book_id
    /\ img.calls = <<"lookup", "translate", "gemini_refs", "gemini_prompt", "dalle">>
    /\ img.result.kind = "url"

\* th has got back something other than its own string or a translation the
\* provider gave for its own string
ForeignResult(th) ==
    LET r == requests.threads[th] IN
      /\ r.pc = "returned"
      /\ r.result # r.text
      /\ <<r.text, r.result>> \notin requests.answers

(***************************************************************************)
(* C34: the translation cache under concurrent requests.  Whatever the     *)
(* interleaving of the threads, every entry of the cache is a text the     *)
(* provider returned for a request of exactly the entry's string, and a    *)
(* request returns either its own string (the translation failed) or a     *)
(* text the provider returned for its own string.                          *)
(***************************************************************************)
CacheSafe ==
    /\ \A t \in DOMAIN translator.cache :
          <<t, translator.cache[t]>> \in requests.answers
    /\ \A th \in Threads : ~ForeignResult(th)

\* both threads asked for the same string before either had stored it, the
\* provider answered them differently, and each has returned its own answer
CacheSafeWitness ==
    /\ requests.threads[1] = Returned(Word(1), <<"a">>)
    /\ requests.threads[2] = Returned(Word(1), <<"b">>)
    /\ translator.cache[Word(1)] = <<"b">>
    /\ translator.calls = 4
    /\ Has(translator.cache, Padded(1, 1, 0))

(***************************************************************************)
(* C35: a text message starts chapter generation only after the user chose *)
(* to give a hint.  While the choice between the automatic chapter and a   *)
(* hint is the last thing shown and no hint has been given in the session, *)
(* a text message is not taken by handle_chapter_hint.                     *)
(***************************************************************************)
HintOnlyAfterChoice ==
    [][(/\ chapConv = "CHAPTER_HINT"
        /\ lastRender = "chapter_choice"
        /\ ~Has(user_data, "chapter_hint"))
         => \A text \in HintInputs, outcome \in PipelineOutcomes, b \in SimpleBatches,
               error_sent \in BOOLEAN :
                 ~handle_chapter_hint(text, outcome, b, error_sent)]_vars

\* a draft character as finish_character_creation leaves it: a name of at
\* least MIN_NAME characters and a non-empty full description
ValidDraft(character) ==
    /\ Has(character, "name") /\ Len(character["name"]) >= MIN_NAME
    /\ Has(character, "full_description") /\ character["full_description"] # << >>

\* a book with a title of trimmed length MIN_TITLE..MAX_TITLE and a
\* description of at least MIN_DESCRIPTION characters
ValidBook(title, description) ==
    /\ Len(strip(title)) \in MIN_TITLE..MAX_TITLE
    /\ Len(description) >= MIN_DESCRIPTION

(***************************************************************************)
(* C36: every book committed by finish_characters is a validated one.  In  *)
(* ADD_MORE_CHARACTERS, the only state where finish is accepted, the draft *)
(* list is non-empty, every draft is valid and the draft book is valid;    *)
(* every book in the store has a valid title and description and at least  *)
(* one character; and the characters a step commits are valid drafts.      *)
(***************************************************************************)
CommittedBooksValid ==
    /\ [](bookConv = "ADD_MORE_CHARACTERS" =>
            /\ Drafts # << >>
            /\ \A k \in 1..Len(Drafts) : ValidDraft(Drafts[k])
            /\ Has(user_data, "book_title") /\ Has(user_data, "book_description")
            /\ ValidBook(user_data["book_title"], user_data["book_description"]))
    /\ [](\A b \in 1..Len(store.books) :
            /\ ValidBook(store.books[b].title, store.books[b].description)
            /\ \E k \in 1..Len(store.characters) : store.characters[k].book = b)
    /\ [][Len(store.characters') > Len(store.characters) =>
            \A k \in 1..Len(Drafts) : ValidDraft(Drafts[k])]_vars

(***************************************************************************)
(* utils/user_settings.py.  user_sessions.exists: whether the user has a   *)
(* row in the table user_sessions; session_data: the document of that row. *)
(* Every call of the manager takes one tick of the clock.                  *)
(***************************************************************************)
MaxClock == 4       \* calls of the settings manager followed

MIN_CHAPTER_SIZE == 200
MAX_CHAPTER_SIZE == 1200
MIN_CHAPTER_PICS == 1
MAX_CHAPTER_PICS == 3

\* UserSettings.validate
validate(settings) ==
    /\ settings.chapter_size \in MIN_CHAPTER_SIZE..MAX_CHAPTER_SIZE
    /\ settings.chapter_pics \in MIN_CHAPTER_PICS..MAX_CHAPTER_PICS

\* read_ok: whether the select of the row works; if it raises, the except
\* clause returns the defaults
get_user_settings(row, read_ok, now) ==
    IF ~read_ok THEN UserSettings(EmptyDict, now)
    ELSE IF row.exists
    THEN UserSettings(Get(row.session_data, "user_settings", EmptyDict), now)
    ELSE UserSettings(EmptyDict, now)

\* dict.update: the entries of other replace those of data
Update(data, other) ==
    [key \in (DOMAIN data) \cup (DOMAIN other) |->
        IF key \in DOMAIN other THEN other[key] ELSE data[key]]

\* the document is stored as the merge left it
MergedOnly(session_data, settings) == session_data

\* session_data['user_settings'] = settings.to_dict(), after the merge
WithNewSettings(session_data, settings) == Put(session_data, "user_settings", settings)

\* <<row afterwards, value returned>>; write_ok: whether get_or_create_user,
\* the select and the update or insert all work
update_user_settings(row, settings, write_ok) ==
    IF ~validate(settings) THEN <<row, FALSE>>
    ELSE IF ~write_ok THEN <<row, FALSE>>
    ELSE LET session_data == Put(EmptyDict, "user_settings", settings)
             existing_data == row.session_data
             merged == IF DOMAIN existing_data # {}
                       THEN Update(session_data, existing_data)
                       ELSE session_data
         IN  IF row.exists
             THEN <<[row EXCEPT !.session_data = WithNewSettings(merged, settings)], TRUE>>
             ELSE <<[row EXCEPT !.exists = TRUE, !.session_data = session_data], TRUE>>

\* the call op(value) is over: r is what update_user_settings gave
Called(op, value, settings, r) ==
    /\ user_sessions' = [r[1] EXCEPT
           !.now = @ + 1,
           !.last = [op |-> op, value |-> value, success |-> r[2],
                     settings |-> settings]]
    /\ UNCHANGED <<bookConv, chapConv, user_data, tasks, store, fin, trace, lastRender,
                   dropped, nFlows, nChars, nFaults, img, batch, illus, translator,
                   sessions, requests>>

set_chapter_size(size, read_ok, write_ok) ==
    /\ user_sessions.now < MaxClock
    /\ IF ~(size \in MIN_CHAPTER_SIZE..MAX_CHAPTER_SIZE)
       THEN /\ read_ok /\ write_ok
            /\ Called("set_chapter_size", size, NoSession.last.settings,
                      <<user_sessions, FALSE>>)
       ELSE LET settings == [get_user_settings(user_sessions, read_ok, user_sessions.now)
                                EXCEPT !.chapter_size = size]
            IN  Called("set_chapter_size", size, settings,
                       update_user_settings(user_sessions, settings, write_ok))

set_chapter_pics(pics, read_ok, write_ok) ==
    /\ user_sessions.now < MaxClock
    /\ IF ~(pics \in MIN_CHAPTER_PICS..MAX_CHAPTER_PICS)
       THEN /\ read_ok /\ write_ok
            /\ Called("set_chapter_pics", pics, NoSession.last.settings,
                      <<user_sessions, FALSE>>)
       ELSE LET settings == [get_user_settings(user_sessions, read_ok, user_sessions.now)
                                EXCEPT !.chapter_pics = pics]
            IN  Called("set_chapter_pics", pics, settings,
                       update_user_settings(user_sessions, settings, write_ok))

reset_settings(write_ok) ==
    /\ user_sessions.now < MaxClock
    /\ LET default_settings == UserSettings(EmptyDict, user_sessions.now)
       IN  Called("reset_settings", 0, default_settings,
                  update_user_settings(user_sessions, default_settings, write_ok))

\* the arguments of /chapter_size and /chapter_pics
ChapterSizeInputs ==
    {MIN_CHAPTER_SIZE - 1, MIN_CHAPTER_SIZE, MAX_CHAPTER_SIZE, MAX_CHAPTER_SIZE + 1}

ChapterPicsInputs ==
    {MIN_CHAPTER_PICS - 1, MIN_CHAPTER_PICS, MAX_CHAPTER_PICS, MAX_CHAPTER_PICS + 1}

\* the documents a row holds when the manager is first called: none, settings
\* stored earlier, a key of another component, or both
StoredSettings ==
    {[chapter_size |-> size, chapter_pics |-> pics, created_at |-> 0, updated_at |-> 0] :
        size \in {MIN_CHAPTER_SIZE, 600}, pics \in {MIN_CHAPTER_PICS, MAX_CHAPTER_PICS}}

SessionDocuments ==
    {EmptyDict, Put(EmptyDict, "other", 1)}
    \cup {Put(EmptyDict, "user_settings", settings) : settings \in StoredSettings}
    \cup {Put(Put(EmptyDict, "user_settings", settings), "other", 1) :
             settings \in StoredSettings}

InitSettings ==
    /\ bookConv = END
    /\ chapConv = END
    /\ user_data = EmptyDict
    /\ tasks = << >>
    /\ store = [books |-> << >>, characters |-> << >>, chapters |-> << >>]
    /\ fin = Idle
    /\ trace = << >>
    /\ lastRender = "none"
    /\ dropped = {}
    /\ nFlows = 0
    /\ nChars = 0
    /\ nFaults = 0
    /\ img = NoCall
    /\ batch = NoBatch
    /\ illus = NoRun
    /\ translator = NoTranslations
    /\ sessions = OneUser
    /\ requests = NoRequests
    /\ \/ user_sessions = NoSession
       \/ \E session_data \in SessionDocuments :
             user_sessions = [NoSession EXCEPT !.exists = TRUE,
                                              !.session_data = session_data]

NextSettings ==
    \/ \E size \in ChapterSizeInputs, read_ok, write_ok \in BOOLEAN :
          set_chapter_size(size, read_ok, write_ok)
    \/ \E pics \in ChapterPicsInputs, read_ok, write_ok \in BOOLEAN :
          set_chapter_pics(pics, read_ok, write_ok)
    \/ \E write_ok \in BOOLEAN : reset_settings(write_ok)

SpecSettings == InitSettings /\ [][NextSettings]_vars

\* the settings the next chapter is generated with: what get_user_settings
\* reads from the row
StoredSettingsOf(row) == get_user_settings(row, TRUE, 0)

(***************************************************************************)
(* C37: set_chapter_size and set_chapter_pics change only their own        *)
(* setting.  A call of set_chapter_size leaves the stored chapter_pics as  *)
(* it was, a call of set_chapter_pics leaves the stored chapter_size as it *)
(* was, also when the settings cannot be read; and a value out of range    *)
(* leaves the row as it was.                                               *)
(***************************************************************************)
OwnSettingOnly ==
    [][LET last == user_sessions'.last IN
         /\ last.op = "set_chapter_size" =>
               StoredSettingsOf(user_sessions').chapter_pics
                   = StoredSettingsOf(user_sessions).chapter_pics
         /\ last.op = "set_chapter_pics" =>
               StoredSettingsOf(user_sessions').chapter_size
                   = StoredSettingsOf(user_sessions).chapter_size
         /\ (\/ last.op = "set_chapter_size"
                   /\ last.value \notin MIN_CHAPTER_SIZE..MAX_CHAPTER_SIZE
             \/ last.op = "set_chapter_pics"
                   /\ last.value \notin MIN_CHAPTER_PICS..MAX_CHAPTER_PICS)
               => /\ ~last.success
                  /\ user_sessions'.exists = user_sessions.exists
                  /\ user_sessions'.session_data = user_sessions.session_data]_vars

(***************************************************************************)
(* C38: update_user_settings replaces only the key 'user_settings' of the  *)
(* stored document.  After a call that returned True the row exists, its   *)
(* 'user_settings' are the settings handed to the call, every other key    *)
(* that was in the document is there with its value, and no key is added.  *)
(***************************************************************************)
OnlyUserSettingsReplaced ==
    [][user_sessions'.last.success =>
         LET before == user_sessions.session_data
             after == user_sessions'.session_data
         IN  /\ user_sessions'.exists
             /\ Has(after, "user_settings")
             /\ after["user_settings"] = user_sessions'.last.settings
             /\ DOMAIN after = (DOMAIN before) \cup {"user_settings"}
             /\ \A key \in (DOMAIN before) \ {"user_settings"} :
                   after[key] = before[key]]_vars

\* a document with another key got a chapter size that was never stored
\* before, and kept the other key and the three illustrations
OnlyUserSettingsReplacedWitness ==
    /\ user_sessions.exists
    /\ user_sessions.last.op = "set_chapter_size"
    /\ user_sessions.last.success
    /\ Has(user_sessions.session_data, "other")
    /\ user_sessions.session_data["other"] = 1
    /\ user_sessions.session_data["user_settings"] = user_sessions.last.settings
    /\ user_sessions.session_data["user_settings"].chapter_size = MAX_CHAPTER_SIZE
    /\ user_sessions.session_data["user_settings"].chapter_pics = MAX_CHAPTER_PICS
    /\ user_sessions.session_data["user_settings"].created_at = 0
    /\ user_sessions.session_data["user_settings"].updated_at = 1
====
